---- MODULE Spec2Model ----
(***************************************************************************)
(* Model of the ingestion core of project_3 (Real-Time Sports Analytics):  *)
(*   - DatabaseManager     (src/project_3/src/db_utils.py)                 *)
(*   - DataProcessor       (src/project_3/src/process_data.py)             *)
(*   - FootballDataFetcher (src/project_3/src/fetch_data.py)               *)
(*   - DataScheduler       (src/project_3/src/scheduler.py)                *)
(*                                                                         *)
(* Conventions                                                             *)
(*   Python None in an integer position is the sentinel None, in a string  *)
(*   position the string "None".  A dictionary key that is missing is the  *)
(*   sentinel Absent.  Floats rounded to 4 decimals are integers counting  *)
(*   ten-thousandths (0.0222 is 222).  An f-string "{name} Squad" is the   *)
(*   pair <<name, " Squad">>.                                              *)
(***************************************************************************)
EXTENDS Integers, Sequences, FiniteSets, TLC

VARIABLES
    \* ---- persistence layer (db_utils.py) ----
    matches,          \* table matches: sequence of rows
    teams,            \* table teams: sequence of rows
    player_stats,     \* table player_stats: sequence of rows
    \* ---- observation of the last persistence / processor call ----
    dbcall,           \* record describing the last call and its outcome
    firstRec,         \* match id -> record of the first committed insert_match
    lastRec,          \* match id -> record of the last committed insert_match
    ncalls,           \* number of direct persistence calls made so far
    ningested,        \* number of raw matches handed to the processor so far
    kcount,           \* match id -> counted ingestions of it as FINISHED
    \* ---- pure transformer functions (process_data.py) ----
    gencall,          \* the last call, if of generate_player_stats_from_match
    calccall,         \* the last call, if of calculate_derived_metrics
    \* ---- rate-limited client (fetch_data.py) ----
    clock,            \* time.time(), in seconds
    last_request_time,\* FootballDataFetcher.last_request_time
    cpc,              \* "idle", or "awaiting" while requests.get is in flight
    cur,              \* the _make_request call in progress
    reqs,             \* observation of the requests issued so far
    cret,             \* observation of the last return of _make_request
    \* ---- scheduler process (scheduler.py) ----
    mode,             \* "once" (--once) or "loop"
    spc,              \* where the process is: "main", "first_cycle",
                      \* "once_cycle", "waiting", "job_cycle", "exited"
    stage,            \* inside a cycle: "fetch", "persist", "scorers"; else "none"
    feed,             \* results['matches'] of the cycle in progress
    conn_open,        \* the persistence engine has not been disposed
    job_registered,   \* schedule.every(...).do(...) has been called
    next_run,         \* next_run of the periodic job
    sclock,           \* seconds since the process started
    cycle,            \* observation of the cycle in progress
    lastcycle,        \* observation of the last cycle that ended
    sched,            \* counters and flags observed over the run
    \* ---- fetch methods and snapshots (fetch_data.py) ----
    files,            \* data/snapshots: the artifacts, each [name, ts, data]
    fwrites,          \* the artifacts written so far, in order
    fcall,            \* observation of the last fetch_* call
    nfetch,           \* fetch_* calls made directly
    recent,           \* fetch_recent_data: its progress and its results
    \* ---- two processes on one store (db_utils.py) ----
    race,             \* the upsert each process is in, and the key constraint
    \* ---- form scores (process_data.py) ----
    formcall          \* observation of the last calculate_form_scores call

storeVars == <<matches, teams, player_stats, dbcall, firstRec, lastRec, ncalls,
              ningested, kcount>>
pureVars  == <<gencall, calccall>>
clientVars == <<clock, last_request_time, cpc, cur, reqs, cret>>
fetchVars == <<files, fwrites, fcall, nfetch, recent>>
schedVars == <<mode, spc, stage, feed, conn_open, job_registered, next_run,
               sclock, cycle, lastcycle, sched>>
auxVars   == <<race, formcall>>

----------------------------------------------------------------------------
(* Values *)

\* Python None where the other values are integers.
None == -999
\* A dictionary key that is not present (dict.get then yields its default).
Absent == -998
\* Python None where the other values are strings.
NoneS == "None"

\* Python truthiness of an integer-or-None value: None and 0 are falsy.
Truthy(x) == x # None /\ x # 0

\* Python "a or b" on integer-or-None values.
PyOr(a, b) == IF Truthy(a) THEN a ELSE b

\* "x = v; F(x)": the value of an expression is computed once and named.
Bind(v, F(_)) == CHOOSE y \in { F(x) : x \in {v} } : TRUE

\* dict.get(key, default) on a value that may be Absent.
Get(v, default) == IF v = Absent THEN default ELSE v

----------------------------------------------------------------------------
(* Transformer: generate_player_stats_from_match                           *)

\* One aggregate row of generate_player_stats_from_match (home_stat / away_stat).
SquadStat(match_id, team_id, team_name, score) ==
    [ match_id         |-> match_id,
      player_id        |-> None,
      player_name      |-> <<team_name, " Squad">>,
      team_id          |-> team_id,
      team_name        |-> team_name,
      position         |-> "Team",
      minutes_played   |-> 90,
      goals            |-> PyOr(score, 0),
      assists          |-> 0,
      shots            |-> 0,
      shots_on_target  |-> 0,
      passes           |-> 0,
      passes_completed |-> 0,
      tackles          |-> 0,
      interceptions    |-> 0,
      fouls_committed  |-> 0,
      fouls_drawn      |-> 0,
      yellow_cards     |-> 0,
      red_cards        |-> 0,
      efficiency       |-> 0,
      involvement_rate |-> 0,
      form_score       |-> 0 ]

\* Faulty variant: the status test is dropped, rows are emitted for every status.
generate_player_stats_from_match_anystatus(match_data) ==
    << SquadStat(match_data.match_id, match_data.home_team_id,
                 match_data.home_team_name, match_data.home_score),
       SquadStat(match_data.match_id, match_data.away_team_id,
                 match_data.away_team_name, match_data.away_score) >>

\* Faulty variant: the away row takes the home score.
generate_player_stats_from_match_home_score_twice(match_data) ==
    IF match_data.status = "FINISHED"
    THEN << SquadStat(match_data.match_id, match_data.home_team_id,
                      match_data.home_team_name, match_data.home_score),
            SquadStat(match_data.match_id, match_data.away_team_id,
                      match_data.away_team_name, match_data.home_score) >>
    ELSE << >>

\* generate_player_stats_from_match: two aggregate rows, home then away, for a
\* FINISHED match; the empty list otherwise.
generate_player_stats_from_match(match_data) ==
    IF match_data.status = "FINISHED"
    THEN << SquadStat(match_data.match_id, match_data.home_team_id,
                      match_data.home_team_name, match_data.home_score),
            SquadStat(match_data.match_id, match_data.away_team_id,
                      match_data.away_team_name, match_data.away_score) >>
    ELSE << >>

----------------------------------------------------------------------------
(* Transformer: calculate_derived_metrics                                  *)

\* Faulty variant: rounding to two decimal places.
Round4_two_places(n, d) ==
    LET s == n * 100
        q == s \div d
        r == s % d
    IN  100 * (IF 2 * r < d THEN q
               ELSE IF 2 * r > d THEN q + 1
               ELSE IF q % 2 = 0 THEN q ELSE q + 1)

\* round(n / d, 4) for d > 0, in ten-thousandths, ties to even as Python's
\* round does on an exactly representable tie.
Round4(n, d) ==
    LET s == n * 10000
        q == s \div d
        r == s % d
    IN  IF 2 * r < d THEN q
        ELSE IF 2 * r > d THEN q + 1
        ELSE IF q % 2 = 0 THEN q ELSE q + 1

\* "minutes > 0": comparing None with an int raises TypeError.
GtZeroRaises(minutes) == minutes = None
\* "a + b": adding None raises TypeError.
AddRaises(a, b) == a = None \/ b = None

\* Faulty variant: the guard "minutes > 0" written as "minutes >= 0".
MinutesPositive_geq(minutes) == minutes >= 0

\* The guard "if minutes > 0" of both metric computations.
MinutesPositive(minutes) == minutes > 0

\* "round((a + b) / minutes, 4)": the exception it raises ("none" if none)
\* and its value.
RatioStmt(a, b, minutes) ==
    IF AddRaises(a, b) THEN [exc |-> "TypeError", val |-> 0]
    ELSE IF minutes = 0 THEN [exc |-> "ZeroDivisionError", val |-> 0]
    ELSE [exc |-> "none", val |-> Round4(a + b, minutes)]

\* Faulty variant: the form score starts at the efficiency just computed.
InitialFormScore_efficiency(player_stat) == player_stat.efficiency

\* "player_stat['form_score'] = 0.0": the placeholder of line 206.
InitialFormScore(player_stat) == 0

\* The body of the try block of calculate_derived_metrics, statement by
\* statement: the exception raised ("none" if none) and the dictionary as
\* mutated up to the statement that raised.
DerivedMetricsBody(player_stat) ==
    LET minutes == Get(player_stat.minutes_played, 0)
        goals   == Get(player_stat.goals, 0)
        assists == Get(player_stat.assists, 0)
        shots   == Get(player_stat.shots, 0)
        passes  == Get(player_stat.passes, 0)
    IN  IF GtZeroRaises(minutes)
        THEN [exc |-> "TypeError", value |-> player_stat]
        ELSE
          LET e  == IF MinutesPositive(minutes)
                    THEN RatioStmt(goals, assists, minutes)
                    ELSE [exc |-> "none", val |-> 0]
              s1 == [player_stat EXCEPT !.efficiency = e.val]
              i  == IF MinutesPositive(minutes)
                    THEN RatioStmt(shots, passes, minutes)
                    ELSE [exc |-> "none", val |-> 0]
          IN  IF e.exc # "none" THEN [exc |-> e.exc, value |-> player_stat]
              ELSE IF i.exc # "none" THEN [exc |-> i.exc, value |-> s1]
              ELSE [exc   |-> "none",
                    value |-> [s1 EXCEPT !.involvement_rate = i.val,
                                         !.form_score = InitialFormScore(s1)]]

\* The exception classes "except Exception" catches (KeyboardInterrupt and
\* SystemExit derive from BaseException only).
IsException(exc) == exc \notin {"none", "KeyboardInterrupt", "SystemExit"}

\* Faulty variant: no handler around the body.
calculate_derived_metrics_nocatch(player_stat) ==
    LET b == DerivedMetricsBody(player_stat)
    IN  [raised |-> b.exc # "none", value |-> b.value]

\* calculate_derived_metrics: the try block, "except Exception" logging and
\* falling through to "return player_stat" (the same, partly mutated, dict).
calculate_derived_metrics(player_stat) ==
    LET b == DerivedMetricsBody(player_stat)
    IN  [raised |-> b.exc # "none" /\ ~IsException(b.exc), value |-> b.value]

----------------------------------------------------------------------------
(* Raw provider JSON                                                       *)
(* A JSON object is a record with kind "obj"; a key holding JSON null is a *)
(* record with kind "null"; a key that is missing is a record with kind    *)
(* "absent".  Scalar keys hold a value, None (JSON null) or Absent.        *)

RawTeam(kind, id, name) ==
    [ kind |-> kind, id |-> id, name |-> name, shortName |-> name,
      tla |-> NoneS, crest |-> NoneS, founded |-> None, venue |-> NoneS ]

RawFullTime(kind, home, away) == [ kind |-> kind, home |-> home, away |-> away ]

RawScore(kind, winner, fullTime) ==
    [ kind |-> kind, winner |-> winner, duration |-> "Absent", fullTime |-> fullTime ]

RawMatch(id, date, status, homeTeam, awayTeam, score) ==
    [ kind        |-> "obj",
      id          |-> id,
      utcDate     |-> date,
      status      |-> status,
      matchday    |-> 1,
      stage       |-> "REGULAR_SEASON",
      competition |-> [kind |-> "obj", id |-> 2021, name |-> "Premier League"],
      season      |-> [kind |-> "obj", startDate |-> <<"2024", "-08-16">>],
      homeTeam    |-> homeTeam,
      awayTeam    |-> awayTeam,
      score       |-> score,
      venue       |-> NoneS ]

\* obj.get(key, {}) followed by .get(field): the field of an object, None
\* for a missing object (the {} default) or a missing field.
Field(v) == IF v = Absent THEN None ELSE v
FieldS(v) == IF v = "Absent" THEN NoneS ELSE v

\* dict.get(key, {}) yields None for a JSON null, and None.get raises
\* AttributeError.
GetRaises(obj) == obj.kind = "null"

----------------------------------------------------------------------------
(* Transformer: process_match_data, process_team_data                      *)

\* process_match_data: the processed record, or None (ok = FALSE) when the
\* body raised (a nested object that is JSON null, or a record that is not
\* an object).
process_match_data(match_raw) ==
    IF \/ match_raw.kind # "obj"
       \/ GetRaises(match_raw.score)
       \/ (match_raw.score.kind = "obj" /\ GetRaises(match_raw.score.fullTime))
       \/ GetRaises(match_raw.competition)
       \/ GetRaises(match_raw.season)
       \/ GetRaises(match_raw.homeTeam)
       \/ GetRaises(match_raw.awayTeam)
    THEN [ok |-> FALSE]
    ELSE
      LET score    == match_raw.score
          hasScore == score.kind = "obj"
          hasFT    == hasScore /\ score.fullTime.kind = "obj"
          home     == match_raw.homeTeam
          away     == match_raw.awayTeam
          comp     == match_raw.competition
          season   == match_raw.season
      IN [ok |-> TRUE,
          value |->
            [ match_id          |-> Field(match_raw.id),
              utc_date          |-> FieldS(match_raw.utcDate),
              status            |-> IF match_raw.status = "Absent"
                                    THEN "SCHEDULED" ELSE match_raw.status,
              matchday          |-> Field(match_raw.matchday),
              stage             |-> FieldS(match_raw.stage),
              competition_id    |-> IF comp.kind = "obj" THEN Field(comp.id) ELSE None,
              competition_name  |-> IF comp.kind = "obj" THEN FieldS(comp.name) ELSE NoneS,
              season_start_year |-> IF season.kind = "obj" /\ season.startDate # << >>
                                    THEN season.startDate[1] ELSE NoneS,
              home_team_id      |-> IF home.kind = "obj" THEN Field(home.id) ELSE None,
              home_team_name    |-> IF home.kind = "obj" THEN FieldS(home.name) ELSE NoneS,
              away_team_id      |-> IF away.kind = "obj" THEN Field(away.id) ELSE None,
              away_team_name    |-> IF away.kind = "obj" THEN FieldS(away.name) ELSE NoneS,
              home_score        |-> IF hasFT THEN Field(score.fullTime.home) ELSE None,
              away_score        |-> IF hasFT THEN Field(score.fullTime.away) ELSE None,
              winner            |-> IF hasScore THEN FieldS(score.winner) ELSE NoneS,
              duration          |-> IF hasScore /\ score.duration # "Absent"
                                    THEN score.duration ELSE "REGULAR",
              venue             |-> FieldS(match_raw.venue) ]]

\* process_team_data applied to match_raw.get(key, {}): the team record, or
\* None (ok = FALSE) when the key holds JSON null.
process_team_data(team_raw) ==
    IF GetRaises(team_raw) THEN [ok |-> FALSE]
    ELSE
      LET has == team_raw.kind = "obj"
      IN [ok |-> TRUE,
          value |->
            [ team_id    |-> IF has THEN Field(team_raw.id) ELSE None,
              team_name  |-> IF has THEN FieldS(team_raw.name) ELSE NoneS,
              short_name |-> IF has THEN FieldS(team_raw.shortName) ELSE NoneS,
              tla        |-> IF has THEN FieldS(team_raw.tla) ELSE NoneS,
              crest_url  |-> IF has THEN FieldS(team_raw.crest) ELSE NoneS,
              founded    |-> IF has THEN Field(team_raw.founded) ELSE None,
              venue      |-> IF has THEN FieldS(team_raw.venue) ELSE NoneS ]]

----------------------------------------------------------------------------
(* Persistence layer: DatabaseManager                                      *)
(* A database value db is [matches, teams, player_stats], each a sequence  *)
(* of rows.  fault = TRUE stands for the engine raising inside the call    *)
(* (connection loss, constraint violation): nothing is committed.          *)

\* "SELECT match_id FROM matches WHERE match_id = :match_id" returned a row
\* (a NULL parameter matches nothing).
MatchExists(db, id) ==
    id # None /\ \E i \in 1..Len(db.matches) : db.matches[i].match_id = id

\* Faulty variant: the UPDATE also rewrites the scheduled date.
UpdateMatchRow_rewrites_date(row, match_data) ==
    [row EXCEPT !.status     = match_data.status,
                !.home_score = match_data.home_score,
                !.away_score = match_data.away_score,
                !.winner     = match_data.winner,
                !.utc_date   = match_data.utc_date,
                !.updated_at = "update"]

\* The UPDATE statement of insert_match applied to one row.
UpdateMatchRow(row, match_data) ==
    [row EXCEPT !.status     = match_data.status,
                !.home_score = match_data.home_score,
                !.away_score = match_data.away_score,
                !.winner     = match_data.winner,
                !.updated_at = "update"]

\* Faulty variant: the existence check is skipped and every call inserts.
insert_match_always_insert(db, match_data, fault) ==
    IF fault THEN [db |-> db, exc |-> "SQLAlchemyError", ret |-> None]
    ELSE [db  |-> [db EXCEPT !.matches =
                       Append(@, match_data @@ [updated_at |-> "insert"])],
          exc |-> "none", ret |-> match_data.match_id]

\* Faulty variant: the UPDATE omits the status column.
insert_match_stale_status(db, match_data, fault) ==
    IF fault THEN [db |-> db, exc |-> "SQLAlchemyError", ret |-> None]
    ELSE IF MatchExists(db, match_data.match_id)
    THEN [db  |-> [db EXCEPT !.matches =
                     [i \in 1..Len(@) |->
                        IF @[i].match_id = match_data.match_id
                        THEN [UpdateMatchRow(@[i], match_data)
                                EXCEPT !.status = db.matches[i].status]
                        ELSE @[i]]],
          exc |-> "none", ret |-> match_data.match_id]
    ELSE [db  |-> [db EXCEPT !.matches =
                       Append(@, match_data @@ [updated_at |-> "insert"])],
          exc |-> "none", ret |-> match_data.match_id]

\* insert_match: select by id, then UPDATE the five mutable columns or
\* INSERT the full row, then commit; an exception is logged and re-raised.
insert_match(db, match_data, fault) ==
    IF fault THEN [db |-> db, exc |-> "SQLAlchemyError", ret |-> None]
    ELSE IF MatchExists(db, match_data.match_id)
    THEN [db  |-> [db EXCEPT !.matches =
                     [i \in 1..Len(@) |->
                        IF @[i].match_id = match_data.match_id
                        THEN UpdateMatchRow(@[i], match_data)
                        ELSE @[i]]],
          exc |-> "none", ret |-> match_data.match_id]
    ELSE [db  |-> [db EXCEPT !.matches =
                       Append(@, match_data @@ [updated_at |-> "insert"])],
          exc |-> "none", ret |-> match_data.match_id]

TeamExists(db, id) ==
    id # None /\ \E i \in 1..Len(db.teams) : db.teams[i].team_id = id

\* Faulty variant: the existence check is skipped and every call inserts.
insert_team_always_insert(db, team_data, fault) ==
    IF fault THEN [db |-> db, exc |-> "SQLAlchemyError", ret |-> None]
    ELSE [db  |-> [db EXCEPT !.teams =
                       Append(@, team_data @@ [updated_at |-> "insert"])],
          exc |-> "none", ret |-> team_data.team_id]

\* insert_team: the same upsert on teams; the UPDATE rewrites every column.
insert_team(db, team_data, fault) ==
    IF fault THEN [db |-> db, exc |-> "SQLAlchemyError", ret |-> None]
    ELSE IF TeamExists(db, team_data.team_id)
    THEN [db  |-> [db EXCEPT !.teams =
                     [i \in 1..Len(@) |->
                        IF @[i].team_id = team_data.team_id
                        THEN team_data @@ [updated_at |-> "update"]
                        ELSE @[i]]],
          exc |-> "none", ret |-> team_data.team_id]
    ELSE [db  |-> [db EXCEPT !.teams =
                       Append(@, team_data @@ [updated_at |-> "insert"])],
          exc |-> "none", ret |-> team_data.team_id]

\* Faulty variant: to_sql with if_exists = 'replace' instead of 'append'.
insert_player_stats_replace(db, stats, fault) ==
    IF stats = << >> THEN [db |-> db, exc |-> "none", ret |-> 0]
    ELSE IF fault THEN [db |-> db, exc |-> "SQLAlchemyError", ret |-> None]
    ELSE [db  |-> [db EXCEPT !.player_stats = stats],
          exc |-> "none", ret |-> Len(stats)]

\* Faulty variant: the empty list is handed to the engine like any other.
insert_player_stats_no_empty_check(db, stats, fault) ==
    IF fault THEN [db |-> db, exc |-> "SQLAlchemyError", ret |-> None]
    ELSE [db  |-> [db EXCEPT !.player_stats = @ \o stats],
          exc |-> "none", ret |-> Len(stats)]

\* insert_player_stats: 0 for an empty list, else DataFrame.to_sql(...,
\* if_exists = 'append'); an exception is logged and re-raised.
insert_player_stats(db, stats, fault) ==
    IF stats = << >> THEN [db |-> db, exc |-> "none", ret |-> 0]
    ELSE IF fault THEN [db |-> db, exc |-> "SQLAlchemyError", ret |-> None]
    ELSE [db  |-> [db EXCEPT !.player_stats = @ \o stats],
          exc |-> "none", ret |-> Len(stats)]

----------------------------------------------------------------------------
(* Transformer: process_and_store_matches                                  *)
(* fault names the persistence call of one loop iteration in which the     *)
(* engine raises: "none", "match", "home", "away" or "stats".              *)

Faults == {"none", "match", "home", "away", "stats"}

\* One entry of the log of persistence calls made by a batch.
Call(op, key, exc) == [op |-> op, key |-> key, exc |-> exc]

\* Lines 279-281 / 283-285: process_team_data and, for a record that is not
\* None, insert_team.
StoreTeam(db, team_raw, fault) ==
    Bind(process_team_data(team_raw), LAMBDA t :
      IF ~t.ok THEN [db |-> db, exc |-> "none", log |-> << >>]
      ELSE Bind(insert_team(db, t.value, fault), LAMBDA r :
             [db |-> r.db, exc |-> r.exc,
              log |-> << Call("insert_team", t.value.team_id, r.exc) >>]))

\* Lines 288-292: generate the stat rows, compute their derived metrics and
\* append them when there are any.
StoreStats(db, match_data, fault) ==
    Bind(generate_player_stats_from_match(match_data), LAMBDA gen :
      IF gen = << >> THEN [db |-> db, exc |-> "none", log |-> << >>]
      ELSE
        Bind([i \in 1..Len(gen) |-> calculate_derived_metrics(gen[i])], LAMBDA calc :
          IF \E i \in 1..Len(gen) : calc[i].raised
          THEN [db |-> db, exc |-> "TypeError", log |-> << >>]
          ELSE
            Bind(insert_player_stats(db, [i \in 1..Len(gen) |-> calc[i].value], fault),
                 LAMBDA r :
                   [db |-> r.db, exc |-> r.exc,
                    log |-> << Call("insert_player_stats", match_data.match_id,
                                    r.exc) >>])))

\* Faulty variant: the stat rows are appended before the match is upserted.
ProcessOne_stats_first(db, match_raw, fault) ==
    Bind(process_match_data(match_raw), LAMBDA m :
      IF ~m.ok THEN [db |-> db, outcome |-> "skipped", log |-> << >>]
      ELSE
        Bind(StoreStats(db, m.value, fault = "stats"), LAMBDA r4 :
          IF r4.exc # "none"
          THEN [db |-> r4.db, outcome |-> "raised", log |-> r4.log]
          ELSE
            Bind(insert_match(r4.db, m.value, fault = "match"), LAMBDA r1 :
              [db      |-> r1.db,
               outcome |-> IF r1.exc # "none" THEN "raised" ELSE "counted",
               log     |-> r4.log \o
                           << Call("insert_match", m.value.match_id, r1.exc) >>])))

\* One iteration of the loop of process_and_store_matches (lines 268-298):
\* outcome is "skipped" (process_match_data returned None), "raised" (an
\* exception reached the handler of line 296) or "counted".
ProcessOne(db, match_raw, fault) ==
    Bind(process_match_data(match_raw), LAMBDA m :
      IF ~m.ok THEN [db |-> db, outcome |-> "skipped", log |-> << >>]
      ELSE
        Bind(insert_match(db, m.value, fault = "match"), LAMBDA r1 :
          LET l1 == << Call("insert_match", m.value.match_id, r1.exc) >>
          IN
          IF r1.exc # "none"
          THEN [db |-> r1.db, outcome |-> "raised", log |-> l1]
          ELSE
            Bind(StoreTeam(r1.db, match_raw.homeTeam, fault = "home"), LAMBDA r2 :
              IF r2.exc # "none"
              THEN [db |-> r2.db, outcome |-> "raised", log |-> l1 \o r2.log]
              ELSE
                Bind(StoreTeam(r2.db, match_raw.awayTeam, fault = "away"), LAMBDA r3 :
                  IF r3.exc # "none"
                  THEN [db |-> r3.db, outcome |-> "raised",
                        log |-> l1 \o r2.log \o r3.log]
                  ELSE
                    Bind(StoreStats(r3.db, m.value, fault = "stats"), LAMBDA r4 :
                      [db      |-> r4.db,
                       outcome |-> IF r4.exc # "none" THEN "raised" ELSE "counted",
                       log     |-> l1 \o r2.log \o r3.log \o r4.log])))))

\* Faulty variant: an exception of one record ends the loop.
RECURSIVE ProcessMatches_stop_on_error(_, _, _)
ProcessMatches_stop_on_error(db, raws, faults) ==
    IF raws = << >> THEN [db |-> db, outcomes |-> << >>, log |-> << >>]
    ELSE Bind(ProcessOne(db, Head(raws), Head(faults)), LAMBDA one :
           IF one.outcome = "raised"
           THEN [db |-> one.db,
                 outcomes |-> << one.outcome >>
                              \o [i \in 1..(Len(raws) - 1) |-> "skipped"],
                 log |-> one.log]
           ELSE
           Bind(ProcessMatches_stop_on_error(one.db, Tail(raws), Tail(faults)),
                LAMBDA rest :
                  [db       |-> rest.db,
                   outcomes |-> << one.outcome >> \o rest.outcomes,
                   log      |-> one.log \o rest.log]))

\* The loop over matches_data['matches']: the database after it, the
\* outcome of every iteration and the persistence calls made, in order.
RECURSIVE ProcessMatches(_, _, _)
ProcessMatches(db, raws, faults) ==
    IF raws = << >> THEN [db |-> db, outcomes |-> << >>, log |-> << >>]
    ELSE Bind(ProcessOne(db, Head(raws), Head(faults)), LAMBDA one :
           Bind(ProcessMatches(one.db, Tail(raws), Tail(faults)), LAMBDA rest :
             [db       |-> rest.db,
              outcomes |-> << one.outcome >> \o rest.outcomes,
              log      |-> one.log \o rest.log]))

\* The payloads handed to process_and_store_matches: None, a dictionary
\* without the key 'matches', or a dictionary with a list under 'matches'.
Payload(kind, raws) == [kind |-> kind, matches |-> raws]

\* process_and_store_matches: 0 for a missing payload, else the loop; the
\* value returned is the number of iterations that reached line 294.
process_and_store_matches(db, matches_data, faults) ==
    IF matches_data.kind # "matches"
    THEN [db |-> db, ret |-> 0, outcomes |-> << >>, log |-> << >>]
    ELSE Bind(ProcessMatches(db, matches_data.matches, faults), LAMBDA r :
           [db |-> r.db,
            ret |-> Cardinality({i \in 1..Len(r.outcomes) : r.outcomes[i] = "counted"}),
            outcomes |-> r.outcomes, log |-> r.log])

----------------------------------------------------------------------------
(* The pure transformer functions applied to bounded inputs                *)

\* A processed match record (the 17 keys process_match_data builds); the
\* columns no claim distinguishes keep one value.
MatchRecord(id, date, status, hid, hname, aid, aname, hs, as, winner) ==
    [ match_id          |-> id,
      utc_date          |-> date,
      status            |-> status,
      matchday          |-> 1,
      stage             |-> "REGULAR_SEASON",
      competition_id    |-> 2021,
      competition_name  |-> "Premier League",
      season_start_year |-> "2024",
      home_team_id      |-> hid,
      home_team_name    |-> hname,
      away_team_id      |-> aid,
      away_team_name    |-> aname,
      home_score        |-> hs,
      away_score        |-> as,
      winner            |-> winner,
      duration          |-> "REGULAR",
      venue             |-> NoneS ]

\* Inputs of generate_player_stats_from_match.
GenInputs ==
    { MatchRecord(id, "2024-08-17", st, hid, hn, aid, an, hs, as, NoneS) :
        id \in {None, 1, 2},
        st \in {"SCHEDULED", "IN_PLAY", "FINISHED", NoneS},
        hid \in {None, 10}, hn \in {NoneS, "Arsenal"},
        aid \in {None, 20}, an \in {NoneS, "Leeds"},
        hs \in {None, 0, 2}, as \in {None, 0, 1} }

\* Inputs of calculate_derived_metrics: any stat dictionary, also with
\* missing or None counting stats and with stale derived values.
CalcInputs ==
    { [ SquadStat(1, 10, "Arsenal", 0) EXCEPT
            !.minutes_played = m, !.goals = g, !.assists = a, !.shots = sh,
            !.passes = pa, !.efficiency = e, !.involvement_rate = e,
            !.form_score = fs ] :
        m \in {Absent, None, -5, 0, 32, 90},
        g \in {Absent, None, 0, 1, 2},
        a \in {None, 0, 1},
        sh \in {None, 0, 3},
        pa \in {0, 45},
        e \in {0, 77},
        fs \in {0, 5} }

NoGenCall  == [called |-> FALSE, arg |-> MatchRecord(None, NoneS, NoneS, None,
                 NoneS, None, NoneS, None, None, NoneS), result |-> << >>]
NoCalcCall == [called |-> FALSE, arg |-> SquadStat(None, None, NoneS, None),
               raised |-> FALSE, result |-> SquadStat(None, None, NoneS, None)]

PureInit == gencall = NoGenCall /\ calccall = NoCalcCall

\* A call generate_player_stats_from_match(m), the one call of the run.
GeneratePlayerStats ==
    /\ ~gencall.called /\ ~calccall.called
    /\ \E m \in GenInputs :
        /\ gencall' = [called |-> TRUE, arg |-> m,
                       result |-> generate_player_stats_from_match(m)]
        /\ calccall' = NoCalcCall

\* A call calculate_derived_metrics(ps), the one call of the run.
CalculateDerivedMetrics ==
    /\ ~gencall.called /\ ~calccall.called
    /\ \E ps \in CalcInputs :
        LET r == calculate_derived_metrics(ps)
        IN  /\ calccall' = [called |-> TRUE, arg |-> ps,
                            raised |-> r.raised, result |-> r.value]
            /\ gencall' = NoGenCall

----------------------------------------------------------------------------
(* Bounds and inputs of the persistence and ingestion specifications       *)

\* Direct persistence calls in one run.
MaxCalls == 3
\* Raw matches handed to process_and_store_matches in one run, over all
\* batches.
MaxIngested == 3

Ids == {1, 2}

Arsenal == RawTeam("obj", 10, "Arsenal")
Leeds   == RawTeam("obj", 20, "Leeds")
NoTeam  == RawTeam("absent", Absent, "Absent")

\* The status / score / winner combinations a provider reports.
Results ==
    { <<"SCHEDULED", None, None, NoneS>>,
      <<"FINISHED", 2, 1, "HOME_TEAM">>,
      <<"FINISHED", 0, 0, "DRAW">> }

\* Records handed to insert_match directly.
UpsertInputs ==
    { MatchRecord(id, date, r[1], 10, "Arsenal", 20, "Leeds", r[2], r[3], r[4]) :
        id \in Ids \cup {None},
        date \in {"2024-08-17", "2024-08-24"},
        r \in Results }

FinishedScore(winner, h, a) == RawScore("obj", winner, RawFullTime("obj", h, a))

\* Raw matches of a provider payload, each with the persistence faults it
\* is tried with.
RawSched1  == RawMatch(1, "2024-08-17", "SCHEDULED", Arsenal, Leeds,
                       FinishedScore(NoneS, None, None))
RawFin1    == RawMatch(1, "2024-08-24", "FINISHED", Arsenal, Leeds,
                       FinishedScore("HOME_TEAM", 2, 1))
RawFin2    == RawMatch(2, "2024-08-17", "FINISHED", Leeds, Arsenal,
                       FinishedScore("DRAW", 0, 0))
RawBad     == RawMatch(2, "2024-08-17", "FINISHED", Arsenal, Leeds,
                       RawScore("null", NoneS, RawFullTime("absent", Absent, Absent)))
RawNoId    == RawMatch(Absent, "2024-08-17", "FINISHED", Arsenal, Leeds,
                       FinishedScore("HOME_TEAM", 1, 0))
RawNoTeam  == RawMatch(2, "2024-08-24", "SCHEDULED", NoTeam, Leeds,
                       FinishedScore(NoneS, None, None))

IngestInputs ==
    ({RawSched1} \X {"none"})
    \cup ({RawFin1} \X Faults)
    \cup ({RawFin2} \X {"none"})
    \cup ({RawBad} \X {"none"})
    \cup ({RawNoId} \X {"none"})
    \cup ({RawNoTeam} \X {"none"})

\* All sequences over S of length at most n.
SeqsUpTo(S, n) == UNION { [1..k -> S] : k \in 0..n }

----------------------------------------------------------------------------
(* State of the store and the calls made on it                             *)

DB == [matches |-> matches, teams |-> teams, player_stats |-> player_stats]
EmptyDB == [matches |-> << >>, teams |-> << >>, player_stats |-> << >>]

NoDbCall == [op |-> "none", args |-> << >>, exc |-> "none", ret |-> None,
             pre |-> EmptyDB, outcomes |-> << >>, log |-> << >>]

StoreInit ==
    /\ matches = << >> /\ teams = << >> /\ player_stats = << >>
    /\ dbcall = NoDbCall
    /\ firstRec = [id \in Ids |-> << >>]
    /\ lastRec = [id \in Ids |-> << >>]
    /\ ncalls = 0
    /\ ningested = 0
    /\ kcount = [id \in Ids |-> 0]

\* The committed insert_match calls of a log update the per-id history.
RECURSIVE FoldFirst(_, _)
FoldFirst(first, calls) ==
    IF calls = << >> THEN first
    ELSE LET c == Head(calls)
         IN  FoldFirst(IF c.exc = "none" /\ c.rec.match_id \in Ids
                          /\ first[c.rec.match_id] = << >>
                       THEN [first EXCEPT ![c.rec.match_id] = << c.rec >>]
                       ELSE first,
                       Tail(calls))

RECURSIVE FoldLast(_, _)
FoldLast(last, calls) ==
    IF calls = << >> THEN last
    ELSE LET c == Head(calls)
         IN  FoldLast(IF c.exc = "none" /\ c.rec.match_id \in Ids
                      THEN [last EXCEPT ![c.rec.match_id] = << c.rec >>]
                      ELSE last,
                      Tail(calls))

\* A direct call insert_match(match_data).
InsertMatch ==
    /\ ncalls < MaxCalls
    /\ \E md \in UpsertInputs, fault \in BOOLEAN :
        LET r == insert_match(DB, md, fault)
            c == << [rec |-> md, exc |-> r.exc] >>
        IN  /\ matches' = r.db.matches
            /\ teams' = r.db.teams
            /\ player_stats' = r.db.player_stats
            /\ dbcall' = [op |-> "insert_match", args |-> << md >>, exc |-> r.exc,
                          ret |-> r.ret, pre |-> DB, outcomes |-> << >>,
                          log |-> << Call("insert_match", md.match_id, r.exc) >>]
            /\ firstRec' = FoldFirst(firstRec, c)
            /\ lastRec' = FoldLast(lastRec, c)
    /\ ncalls' = ncalls + 1
    /\ UNCHANGED <<ningested, kcount>>

\* Team records handed to insert_team directly.
TeamInputs ==
    { [ team_id |-> id, team_name |-> n, short_name |-> NoneS, tla |-> NoneS,
        crest_url |-> NoneS, founded |-> f, venue |-> NoneS ] :
        id \in {10, 20, None}, n \in {"Arsenal", "Arsenal FC"},
        f \in {None, 1886} }

\* A direct call insert_team(team_data).
InsertTeam ==
    /\ ncalls < MaxCalls
    /\ \E td \in TeamInputs, fault \in BOOLEAN :
        \E r \in {insert_team(DB, td, fault)} :
            /\ matches' = r.db.matches
            /\ teams' = r.db.teams
            /\ player_stats' = r.db.player_stats
            /\ dbcall' = [op |-> "insert_team", args |-> << td, fault >>,
                          exc |-> r.exc, ret |-> r.ret, pre |-> DB,
                          outcomes |-> << >>,
                          log |-> << Call("insert_team", td.team_id, r.exc) >>]
    /\ ncalls' = ncalls + 1
    /\ UNCHANGED <<firstRec, lastRec, ningested, kcount>>

\* Lists handed to insert_player_stats directly: the empty one, and the rows
\* of a finished match.
StatsInputs ==
    { << >> } \cup
    { [i \in 1..2 |->
         calculate_derived_metrics(generate_player_stats_from_match(
             MatchRecord(id, "2024-08-24", "FINISHED", 10, "Arsenal", 20, "Leeds",
                         2, 1, "HOME_TEAM"))[i]).value] : id \in Ids }

\* A direct call insert_player_stats(player_stats).
InsertPlayerStats ==
    /\ ncalls < MaxCalls
    /\ \E stats \in StatsInputs, fault \in BOOLEAN :
        \E r \in {insert_player_stats(DB, stats, fault)} :
            /\ matches' = r.db.matches
            /\ teams' = r.db.teams
            /\ player_stats' = r.db.player_stats
            /\ dbcall' = [op |-> "insert_player_stats", args |-> << stats, fault >>,
                          exc |-> r.exc, ret |-> r.ret, pre |-> DB,
                          outcomes |-> << >>,
                          log |-> << Call("insert_player_stats", None, r.exc) >>]
    /\ ncalls' = ncalls + 1
    /\ UNCHANGED <<firstRec, lastRec, ningested, kcount>>

\* The match records a batch hands to insert_match, with the outcome of
\* each call, in order.
RECURSIVE MatchCalls(_, _)
MatchCalls(raws, log) ==
    IF raws = << >> \/ log = << >> THEN << >>
    ELSE IF ~process_match_data(Head(raws)).ok THEN MatchCalls(Tail(raws), log)
    ELSE IF Head(log).op # "insert_match" THEN MatchCalls(raws, Tail(log))
    ELSE << [rec |-> process_match_data(Head(raws)).value, exc |-> Head(log).exc] >>
         \o MatchCalls(Tail(raws), Tail(log))

\* The store and its observation after process_and_store_matches(data)
\* returned r.
StoreAfter(data, raws, faults, r) ==
    \E mc \in {MatchCalls(raws, r.log)} :
        /\ matches' = r.db.matches
        /\ teams' = r.db.teams
        /\ player_stats' = r.db.player_stats
        /\ dbcall' = [op |-> "process_and_store_matches",
                      args |-> << data, faults >>, exc |-> "none",
                      ret |-> r.ret, pre |-> DB, outcomes |-> r.outcomes,
                      log |-> r.log]
        /\ firstRec' = FoldFirst(firstRec, mc)
        /\ lastRec' = FoldLast(lastRec, mc)
        /\ ningested' = ningested + Len(raws)
        /\ kcount' = [id \in Ids |-> kcount[id] + Cardinality(
               { i \in 1..Len(r.outcomes) :
                   /\ r.outcomes[i] = "counted"
                   /\ raws[i].id = id
                   /\ raws[i].status = "FINISHED" })]
        /\ UNCHANGED ncalls

\* A call process_and_store_matches(matches_data).
ProcessAndStoreMatches ==
    \E kind \in {"none", "nokey", "matches"} :
    \E batch \in SeqsUpTo(IngestInputs,
                          IF kind = "matches" THEN MaxIngested - ningested ELSE 0) :
    \E raws \in {[i \in 1..Len(batch) |-> batch[i][1]]} :
    \E faults \in {[i \in 1..Len(batch) |-> batch[i][2]]} :
    \E r \in {process_and_store_matches(DB, Payload(kind, raws), faults)} :
        StoreAfter(Payload(kind, raws), raws, faults, r)

----------------------------------------------------------------------------
(* Rate-limited client: FootballDataFetcher                                *)
(* Time passes only in time.sleep, while requests.get waits for its        *)
(* response, and in the caller between two calls; the statements between   *)
(* take no time.  A request is issued when requests.get is entered.        *)

\* self.request_delay, seconds.
request_delay == 6
\* time.sleep(60) after a 429.
Cooldown == 60
\* requests.get(..., timeout=30).
RequestTimeout == 30
\* time.time() when the fetcher is constructed (last_request_time is 0).
StartTime == 1000
\* Requests one fetcher issues in one run.
MaxRequests == 3

\* Seconds the caller lets pass before a call.
IdleTimes == {0, 2, 7}
\* Seconds until a response arrives.
Latencies == {0, 1}

\* The calls made: endpoint and query parameters.
Requests ==
    { [endpoint |-> "competitions/PL/matches", params |-> "dateFrom,dateTo"],
      [endpoint |-> "competitions/PL/standings", params |-> "None"] }

\* What requests.get ends with: a response with a status code and a body, or
\* a RequestException.
Outcomes ==
    { [kind |-> "response", status |-> 200, body |-> b, latency |-> l] :
        b \in {"payload1", "payload2"}, l \in Latencies }
    \cup { [kind |-> "response", status |-> st, body |-> "error", latency |-> l] :
        st \in {429, 404, 500}, l \in Latencies }
    \cup { [kind |-> "exception", status |-> 0, body |-> "Timeout",
            latency |-> RequestTimeout],
           [kind |-> "exception", status |-> 0, body |-> "ConnectionError",
            latency |-> 0] }

\* Faulty variant: last_request_time is stamped with current_time, before the sleep.
rate_limit_stamp_before_sleep(now, last) ==
    LET since == now - last
        sleep == IF since < request_delay THEN request_delay - since ELSE 0
    IN  [now |-> now + sleep, last |-> now, slept |-> sleep]

\* _rate_limit: sleep what is missing to request_delay since
\* last_request_time, then stamp last_request_time with the time after it.
rate_limit(now, last) ==
    LET since == now - last
        sleep == IF since < request_delay THEN request_delay - since ELSE 0
    IN  [now |-> now + sleep, last |-> now + sleep, slept |-> sleep]

\* The exceptions requests.get ends with; each is a RequestException.
RequestExceptions == {"Timeout", "ConnectionError"}

\* Faulty variant: the handler names ConnectionError only.
make_request_catches_connection_only(exc) == exc = "ConnectionError"

\* Line 96: "except requests.exceptions.RequestException".
make_request_catches(exc) == exc \in RequestExceptions

\* Faulty variant: the result of the recursive call is not returned.
RetryReturn_dropped(inner) == NoneS

\* "return self._make_request(endpoint, params)": what the frame that got
\* the 429 returns, given what the retry returned.
RetryReturn(inner) == inner

\* What _make_request returns to its caller when the last response of the
\* call arrives, depth retries deep.
RECURSIVE ReturnThrough(_, _)
ReturnThrough(value, depth) ==
    IF depth = 0 THEN value ELSE RetryReturn(ReturnThrough(value, depth - 1))

NoCur  == [endpoint |-> "none", params |-> "None", depth |-> 0, slept |-> 0,
           statuses |-> << >>, issued |-> << >>]
NoReqs == [n |-> 0, first |-> 0, prev |-> 0, last |-> 0, kinds |-> {},
           padded |-> FALSE, after |-> "first"]
NoRet  == [returned |-> FALSE, endpoint |-> "none", params |-> "None",
           value |-> NoneS, slept |-> 0, statuses |-> << >>, issued |-> << >>,
           last |-> "none", raised |-> "none"]

ClientInit ==
    /\ clock = StartTime
    /\ last_request_time = 0
    /\ cpc = "idle"
    /\ cur = NoCur
    /\ reqs = NoReqs
    /\ cret = NoRet

\* Lines 77-83: _rate_limit, then requests.get is entered.  kind tells what
\* the request follows.
Issue(now, call, kind) ==
    LET rl == rate_limit(now, last_request_time)
    IN  /\ clock' = rl.now
        /\ last_request_time' = rl.last
        /\ cur' = [call EXCEPT !.slept = @ + rl.slept,
                               !.issued = Append(@, [endpoint |-> call.endpoint,
                                                    params |-> call.params])]
        /\ reqs' = [n      |-> reqs.n + 1,
                    first  |-> IF reqs.n = 0 THEN rl.now ELSE reqs.first,
                    prev   |-> reqs.last,
                    last   |-> rl.now,
                    kinds  |-> reqs.kinds \cup {kind},
                    padded |-> reqs.padded \/ rl.slept > 0,
                    after  |-> kind]
        /\ cpc' = "awaiting"

\* A caller enters _make_request(endpoint, params).
MakeRequest ==
    /\ cpc = "idle"
    /\ reqs.n < MaxRequests
    /\ \E idle \in IdleTimes, rq \in Requests :
        Issue(clock + idle,
              [NoCur EXCEPT !.endpoint = rq.endpoint, !.params = rq.params],
              IF reqs.n = 0 THEN "first"
              ELSE IF cret.value = NoneS THEN "after_failure" ELSE "after_success")
    /\ UNCHANGED cret

\* The retry of line 92 is a nested call: every 429 of one call adds a frame
\* of _make_request to the stack, and the interpreter allows a bounded number
\* of nested frames (sys.getrecursionlimit(), 1000 unless changed; the source
\* never changes it).  RecursionLimit is that number scaled down, counted in
\* frames of _make_request.
RecursionLimit == 2

\* The call that got a 429 depth retries deep cannot make the nested call.
FramesExhausted(depth) == depth + 2 > RecursionLimit

\* Lines 83-98: requests.get ends.  200 returns the decoded body; 429 sleeps
\* the cooldown and calls _make_request again with the same arguments; any
\* other status and any RequestException return None; the handler is around
\* the recursive call too, so what it does not catch leaves every frame.  A
\* nested call that the stack has no room for raises RecursionError, which is
\* no RequestException: the call ends with it, cret.returned marks the end.
Respond ==
    /\ cpc = "awaiting"
    /\ \E o \in Outcomes :
        LET now  == clock + o.latency
            seen == Append(cur.statuses, o.status)
        IN  IF o.kind = "response" /\ o.status = 429 /\ FramesExhausted(cur.depth)
            THEN /\ clock' = now + Cooldown
                 /\ cret' = [returned |-> TRUE,
                             endpoint |-> cur.endpoint,
                             params   |-> cur.params,
                             value    |-> NoneS,
                             slept    |-> cur.slept + Cooldown,
                             statuses |-> seen,
                             issued   |-> cur.issued,
                             last     |-> o.body,
                             raised   |-> "RecursionError"]
                 /\ cur' = NoCur
                 /\ cpc' = "idle"
                 /\ UNCHANGED <<last_request_time, reqs>>
            ELSE IF o.kind = "response" /\ o.status = 429
            THEN /\ reqs.n < MaxRequests
                 /\ Issue(now + Cooldown,
                          [cur EXCEPT !.depth = @ + 1, !.slept = @ + Cooldown,
                                      !.statuses = seen],
                          "retry")
                 /\ UNCHANGED cret
            ELSE /\ clock' = now
                 /\ cret' = [returned |-> TRUE,
                             endpoint |-> cur.endpoint,
                             params   |-> cur.params,
                             value    |-> ReturnThrough(
                                            IF o.kind = "response" /\ o.status = 200
                                            THEN o.body ELSE NoneS, cur.depth),
                             slept    |-> cur.slept,
                             statuses |-> seen,
                             issued   |-> cur.issued,
                             last     |-> o.body,
                             raised   |-> IF o.kind = "exception"
                                             /\ ~make_request_catches(o.body)
                                          THEN o.body ELSE "none"]
                 /\ cur' = NoCur
                 /\ cpc' = "idle"
                 /\ UNCHANGED <<last_request_time, reqs>>

----------------------------------------------------------------------------
(* Fetch methods and snapshot archival: FootballDataFetcher                *)
(* A fetch_* method runs _make_request to its return and archives what it  *)
(* got.  The clock counts whole seconds and a latency of 0 is a response   *)
(* within the second; the instant at which a snapshot is taken is the      *)
(* clock and the milliseconds into that second.                            *)

\* Direct calls of fetch_* methods in one run.
MaxFetches == 2

\* Decoded bodies of a 200 response: a filled object, the empty object and
\* the empty list.
Bodies == {"payload1", "{}", "[]"}

\* "if data:" - None, {} and [] are false.
DataTruthy(data) == data \notin {NoneS, "{}", "[]"}

\* What the requests of one _make_request call end with, in order: every
\* outcome but the last is a 429.
FetchResponses ==
    { << [kind |-> "response", status |-> 200, body |-> b, latency |-> l] >> :
        b \in Bodies, l \in {0, 7} }
    \cup { << [kind |-> "response", status |-> 404, body |-> "error", latency |-> 0] >>,
           << [kind |-> "exception", status |-> 0, body |-> "Timeout",
               latency |-> RequestTimeout] >>,
           << [kind |-> "response", status |-> 429, body |-> "error", latency |-> 0],
              [kind |-> "response", status |-> 200, body |-> "payload1",
               latency |-> 0] >> }

\* _make_request run to its return at time now: the time it returns, the
\* stamp of the rate limit, the value returned or the exception raised, and
\* the statuses seen.
RECURSIVE make_request(_, _, _)
make_request(now, last, resps) ==
    LET rl == rate_limit(now, last)
        o  == Head(resps)
        t  == rl.now + o.latency
    IN  IF o.kind = "response" /\ o.status = 429 /\ Len(resps) > 1
        THEN LET inner == make_request(t + Cooldown, rl.last, Tail(resps))
             IN  [inner EXCEPT !.value = RetryReturn(@),
                               !.statuses = << o.status >> \o @]
        ELSE [now |-> t, last |-> rl.last,
              value |-> IF o.kind = "response" /\ o.status = 200 THEN o.body
                        ELSE NoneS,
              raised |-> IF o.kind = "exception" /\ ~make_request_catches(o.body)
                         THEN o.body ELSE "none",
              statuses |-> << o.status >>]

\* How the write of an artifact goes: it succeeds, open() fails, or
\* json.dump fails after open() created or truncated the file.
WriteFaults == {"none", "open", "dump"}

\* Milliseconds into the second at which a snapshot may be taken.
Millis == {0, 500}

\* datetime.now() at clock second sec, ms milliseconds into it.
Instant(sec, ms) == [sec |-> sec, ms |-> ms]

\* The instant a is not before the instant b.
NotBefore(a, b) == a.sec > b.sec \/ (a.sec = b.sec /\ a.ms >= b.ms)

\* strftime('%Y%m%d_%H%M%S'): the instant down to its second, the
\* milliseconds dropped.
Timestamp(at) == at.sec

\* open(filepath, 'w') and json.dump: the directory after the artifact
\* (name, ts) was written with data; an artifact of that name and timestamp
\* is replaced.
WriteFile(fs, name, ts, data) ==
    { f \in fs : ~(f.name = name /\ f.ts = ts) }
        \cup { [name |-> name, ts |-> ts, data |-> data] }

\* Faulty variant: the handler of _save_snapshot is missing.
save_snapshot_catches_nothing(exc) == FALSE

\* Line 116: "except Exception" of _save_snapshot.
save_snapshot_catches(exc) == IsException(exc)

\* _save_snapshot(data, name) called at the instant at.
save_snapshot(fs, data, name, at, wf) ==
    LET ts == Timestamp(at)
    IN  IF wf = "none"
        THEN [files |-> WriteFile(fs, name, ts, data), written |-> TRUE,
              raised |-> "none", ts |-> ts]
        ELSE [files |-> IF wf = "open" THEN fs
                        ELSE WriteFile(fs, name, ts, "partial"),
              written |-> FALSE,
              raised |-> IF save_snapshot_catches("OSError") THEN "none"
                         ELSE "OSError",
              ts |-> ts]

\* The three kinds of data fetch_recent_data asks for.
Categories == << "matches", "standings", "scorers" >>

\* fetch_matches / fetch_competition_standings / fetch_competition_scorers
\* of a competition: the endpoint asked and the snapshot name.
Wrapper(cat, comp) ==
    [endpoint |-> << "competitions/", comp, "/", cat >>,
     name |-> << cat, "_", comp >>]

\* Faulty variant: the snapshot is taken for any value that is not None.
archive_condition_not_none(data) == data # NoneS

\* Lines 159, 218, 236: "if data:" before _save_snapshot.
archive_condition(data) == DataTruthy(data)

\* A fetch_* method called at time now: _make_request, then the snapshot
\* when the data is true, then "return data".
Fetch(now, last, fs, w, resps, wf, ms) ==
    LET r == make_request(now, last, resps)
    IN  IF r.raised # "none" \/ ~archive_condition(r.value)
        THEN [now |-> r.now, last |-> r.last, files |-> fs, ret |-> r.value,
              raised |-> r.raised, statuses |-> r.statuses, archived |-> 0,
              written |-> << >>]
        ELSE LET sv == save_snapshot(fs, r.value, w.name, Instant(r.now, ms), wf)
             IN  [now |-> r.now, last |-> r.last, files |-> sv.files,
                  ret |-> IF sv.raised = "none" THEN r.value ELSE NoneS,
                  raised |-> sv.raised, statuses |-> r.statuses, archived |-> 1,
                  written |-> IF sv.written
                              THEN << [name |-> w.name, ts |-> sv.ts,
                                       data |-> r.value,
                                       at |-> Instant(r.now, ms)] >>
                              ELSE << >>]

NoFetchCall == [called |-> FALSE, name |-> << >>, ret |-> NoneS,
                raised |-> "none", statuses |-> << >>, archived |-> 0,
                wf |-> "none", at |-> Instant(0, 0), pre |-> {}]

NoRecent == [pc |-> "idle", comps |-> << >>, pos |-> 0, attempts |-> << >>,
             rets |-> << >>,
             results |-> [matches |-> {}, standings |-> {}, scorers |-> {}]]

FetchInit ==
    /\ files = {}
    /\ fwrites = << >>
    /\ fcall = NoFetchCall
    /\ nfetch = 0
    /\ recent = NoRecent

\* The state after a fetch_* method returned r.
AfterFetch(w, wf, ms, r) ==
    /\ clock' = r.now
    /\ last_request_time' = r.last
    /\ files' = r.files
    /\ fwrites' = fwrites \o r.written
    /\ fcall' = [called |-> TRUE, name |-> w.name, ret |-> r.ret,
                 raised |-> r.raised, statuses |-> r.statuses,
                 archived |-> r.archived, wf |-> wf, at |-> Instant(r.now, ms),
                 pre |-> files]

\* Seconds the caller lets pass before a fetch_* call.
FetchIdleTimes == {0, 2}

\* A caller calls fetch_matches('PL') or fetch_competition_standings('PL').
FetchCall ==
    /\ nfetch < MaxFetches
    /\ \E idle \in FetchIdleTimes, cat \in {"matches", "standings"},
          resps \in FetchResponses, wf \in WriteFaults, ms \in Millis :
        \E r \in {Fetch(clock + idle, last_request_time, files,
                        Wrapper(cat, "PL"), resps, wf, ms)} :
            /\ NotBefore(Instant(r.now, ms), fcall.at)
            /\ AfterFetch(Wrapper(cat, "PL"), wf, ms, r)
    /\ nfetch' = nfetch + 1
    /\ UNCHANGED <<recent, cpc, cur, reqs, cret>>

\* The competition lists fetch_recent_data is called with; the second is
\* the default of DEFAULT_COMPETITIONS.
RecentCompetitions == { << "PL" >>, << "PL", "CL" >> }

\* What a sub-fetch of fetch_recent_data is answered with.
RecentResponses ==
    { << [kind |-> "response", status |-> 200, body |-> b, latency |-> 0] >> :
        b \in {"payload1", "{}"} }
    \cup { << [kind |-> "response", status |-> 404, body |-> "error", latency |-> 0] >>,
           << [kind |-> "exception", status |-> 0, body |-> "Timeout",
               latency |-> RequestTimeout] >> }

\* The competition and the category of the sub-fetch at position pos of the
\* loop of lines 266-284: three sub-fetches per competition.
TaskComp(comps, pos) == comps[((pos - 1) \div Len(Categories)) + 1]
TaskCat(pos) == Categories[((pos - 1) % Len(Categories)) + 1]

\* Faulty variant: a failed sub-fetch ends the work on its competition.
next_position_skip_on_failure(pos, data) ==
    IF DataTruthy(data) THEN pos + 1
    ELSE (((pos - 1) \div Len(Categories)) + 1) * Len(Categories) + 1

\* Lines 272-284: the statement after a sub-fetch is the next sub-fetch,
\* whatever the sub-fetch returned.
next_position(pos, data) == pos + 1

\* results[cat][comp] = data
SetKey(d, comp, data) == { e \in d : e[1] # comp } \cup { << comp, data >> }

\* fetch_recent_data is entered: results is built with empty categories.
RecentStart ==
    /\ recent.pc = "idle"
    /\ \E comps \in RecentCompetitions :
        recent' = [NoRecent EXCEPT !.pc = "running", !.comps = comps, !.pos = 1]
    /\ UNCHANGED <<files, fwrites, fcall, nfetch, clientVars>>

\* One sub-fetch of the loop: the fetch method of the category, then
\* "if data: results[category][comp] = data"; after the last one the
\* results are returned.
RecentStep ==
    /\ recent.pc = "running"
    /\ \E resps \in RecentResponses, wf \in {"none", "dump"} :
       \E comp \in {TaskComp(recent.comps, recent.pos)} :
       \E cat \in {TaskCat(recent.pos)} :
       \E r \in {Fetch(clock, last_request_time, files, Wrapper(cat, comp),
                       resps, wf, 0)} :
       \E np \in {next_position(recent.pos, r.ret)} :
            /\ AfterFetch(Wrapper(cat, comp), wf, 0, r)
            /\ recent' =
                 IF r.raised # "none"
                 THEN [recent EXCEPT !.pc = "raised",
                                     !.attempts = Append(@, Wrapper(cat, comp).endpoint),
                                     !.rets = Append(@, NoneS)]
                 ELSE [recent EXCEPT
                         !.pc = IF np > Len(recent.comps) * Len(Categories)
                                THEN "done" ELSE "running",
                         !.pos = np,
                         !.attempts = Append(@, Wrapper(cat, comp).endpoint),
                         !.rets = Append(@, r.ret),
                         !.results = IF DataTruthy(r.ret)
                                     THEN [@ EXCEPT ![cat] = SetKey(@, comp, r.ret)]
                                     ELSE @]
    /\ UNCHANGED <<nfetch, cpc, cur, reqs, cret>>

----------------------------------------------------------------------------
(* Scheduler: DataScheduler and main                                       *)
(* The periodic job is the one of the schedule library: run_pending runs   *)
(* a job whose next_run has come, and next_run is set to the time the job  *)
(* returned plus the interval.                                             *)

\* --interval / FETCH_INTERVAL_MINUTES.
interval_minutes == 1
\* The unit of schedule.every(n).minutes, in seconds.
SecondsPerMinute == 60
\* time.sleep(1) of the scheduler loop.
PollSleep == 1
\* Seconds of process life time explored.
MaxTime == 200

Interval == interval_minutes * SecondsPerMinute

\* Seconds fetch_recent_data may take (rate-limit sleeps included); the
\* longer one exceeds the interval.
FetchDurations == {1, 70}

\* results['matches'] of a cycle: no competition fetched, or one payload.
Feeds == { << >>, << Payload("matches", << RawFin1 >>) >> }

NoCycle == [ctx |-> "none", start |-> 0, end |-> 0, raised |-> "none",
            fault |-> "none", escaped |-> FALSE]

SchedInit ==
    /\ mode \in {"once", "loop"}
    /\ spc = "main"
    /\ stage = "none"
    /\ feed = << >>
    /\ conn_open = TRUE
    /\ job_registered = FALSE
    /\ next_run = 0
    /\ sclock = 0
    /\ cycle = NoCycle
    /\ lastcycle = NoCycle
    /\ sched = [started |-> 0, completed |-> 0, waited |-> FALSE,
                exit |-> "none", prev_end |-> 0]

\* fetch_and_process is entered in context ctx.
BeginCycle(ctx) ==
    /\ spc' = ctx
    /\ stage' = "fetch"
    /\ feed' = << >>
    /\ cycle' = [NoCycle EXCEPT !.ctx = ctx, !.start = sclock]
    /\ sched' = [sched EXCEPT !.started = @ + 1]

\* The process ends; on a path through cleanup(), processor.close() has
\* disposed the engine.
Exit(kind, with_cleanup) ==
    /\ spc' = "exited"
    /\ stage' = "none"
    /\ conn_open' = IF with_cleanup THEN FALSE ELSE conn_open
    /\ sched' = [sched EXCEPT !.exit = kind]

\* Faulty variant: start() registers the job and waits without the immediate run.
start_first_step_no_immediate_run == "register"

\* Line 104: start() first calls fetch_and_process.
start_first_step == "first_cycle"

\* Faulty variant: main lacks the else and goes on into start() after run_once().
after_run_once_missing_else == "start"

\* Lines 150-153: after run_once() returns, main returns.
after_run_once == "return"

\* Line 107: schedule.every(interval_minutes).minutes.do(fetch_and_process),
\* then the loop is entered.
RegisterJob ==
    /\ job_registered' = TRUE
    /\ next_run' = sclock' + Interval
    /\ spc' = "waiting"

\* start() is entered.
EnterStart ==
    IF start_first_step = "first_cycle"
    THEN BeginCycle("first_cycle")
         /\ UNCHANGED <<sclock, job_registered, next_run, lastcycle, conn_open>>
    ELSE /\ UNCHANGED <<sclock, stage, feed, cycle, sched, lastcycle, conn_open>>
         /\ RegisterJob

\* main: run_once() with --once, start() otherwise.
Main ==
    /\ spc = "main"
    /\ IF mode = "once"
       THEN BeginCycle("once_cycle")
            /\ UNCHANGED <<sclock, job_registered, next_run, lastcycle, conn_open>>
       ELSE EnterStart
    /\ UNCHANGED <<mode, storeVars>>

\* Faulty variant: fetch_and_process has no handler.
fetch_and_process_catches_nothing(exc) == FALSE

\* Line 85: "except Exception" of fetch_and_process.
fetch_and_process_catches(exc) == IsException(exc)

\* fetch_and_process returned (normally, or after its handler logged exc).
CycleReturns(exc, fault) ==
    /\ lastcycle' = [cycle EXCEPT !.end = sclock', !.raised = exc, !.fault = fault]
    /\ feed' = << >>
    /\ CASE spc = "first_cycle" ->
              /\ RegisterJob
              /\ sched' = [sched EXCEPT !.completed = @ + 1, !.prev_end = sclock']
              /\ cycle' = NoCycle
              /\ stage' = "none"
              /\ UNCHANGED conn_open
         [] spc = "job_cycle" ->
              \* Job.run stamps next_run; the loop goes on.
              /\ next_run' = sclock' + Interval
              /\ spc' = "waiting"
              /\ sched' = [sched EXCEPT !.completed = @ + 1, !.prev_end = sclock']
              /\ cycle' = NoCycle
              /\ stage' = "none"
              /\ UNCHANGED <<job_registered, conn_open>>
         [] spc = "once_cycle" ->
              IF after_run_once = "return"
              THEN /\ spc' = "exited"
                   /\ sched' = [sched EXCEPT !.completed = @ + 1,
                                             !.prev_end = sclock',
                                             !.exit = "once_done"]
                   /\ cycle' = NoCycle
                   /\ stage' = "none"
                   /\ UNCHANGED <<job_registered, next_run, conn_open>>
              ELSE /\ spc' = "first_cycle"
                   /\ sched' = [sched EXCEPT !.completed = @ + 1,
                                             !.prev_end = sclock',
                                             !.started = @ + 1]
                   /\ cycle' = [NoCycle EXCEPT !.ctx = "first_cycle",
                                               !.start = sclock']
                   /\ stage' = "fetch"
                   /\ UNCHANGED <<job_registered, next_run, conn_open>>

\* exc left fetch_and_process: in the loop the handlers of start() take it
\* and cleanup() runs; in the first cycle of start() and in run_once() no
\* handler is around the call and the process ends with the exception.
CycleEscapes(exc) ==
    /\ lastcycle' = [cycle EXCEPT !.end = sclock', !.raised = exc, !.escaped = TRUE]
    /\ cycle' = NoCycle
    /\ feed' = << >>
    /\ IF spc = "job_cycle"
       THEN Exit(IF exc = "KeyboardInterrupt" THEN "interrupt" ELSE "job_exception", TRUE)
       ELSE Exit(IF exc = "KeyboardInterrupt" THEN "interrupt_uncaught"
                 ELSE "exception_uncaught", FALSE)
    /\ UNCHANGED <<job_registered, next_run>>

\* exc is raised inside the try block of fetch_and_process.
CycleRaises(exc) ==
    IF fetch_and_process_catches(exc) THEN CycleReturns(exc, cycle.fault)
    ELSE CycleEscapes(exc)

InCycle == spc \in {"first_cycle", "once_cycle", "job_cycle"}

\* Line 64: fetch_recent_data returns results, or raises.
CycleFetch ==
    /\ InCycle /\ stage = "fetch"
    /\ \E d \in FetchDurations :
        /\ sclock + d <= MaxTime
        /\ sclock' = sclock + d
        /\ \/ \E f \in Feeds :
                /\ feed' = f
                /\ stage' = "persist"
                /\ UNCHANGED <<spc, cycle, lastcycle, sched, conn_open,
                               job_registered, next_run>>
           \/ CycleRaises("ValueError")
    /\ UNCHANGED <<mode, storeVars>>

\* Lines 67-70: process_and_store_matches on every payload of
\* results['matches']; an exception of the engine inside it is handled per
\* record, an exception outside its per-record handler leaves it.
CyclePersist ==
    /\ InCycle /\ stage = "persist"
    /\ sclock' = sclock
    /\ \/ /\ feed = << >>
          /\ stage' = "scorers"
          /\ UNCHANGED <<spc, feed, cycle, lastcycle, sched, conn_open,
                         job_registered, next_run, storeVars>>
       \/ /\ feed # << >>
          /\ \E fault \in {"none", "match", "stats"} :
             \E raws \in {feed[1].matches} :
             \E faults \in {[i \in 1..Len(raws) |-> fault]} :
             \E r \in {process_and_store_matches(DB, feed[1], faults)} :
                /\ StoreAfter(feed[1], raws, faults, r)
                /\ cycle' = [cycle EXCEPT !.fault = fault]
          /\ stage' = "scorers"
          /\ UNCHANGED <<spc, feed, lastcycle, sched, conn_open,
                         job_registered, next_run>>
       \/ /\ CycleRaises("TypeError")
          /\ UNCHANGED storeVars
    /\ UNCHANGED mode

\* Lines 73-83: process_scorers_data on every scorers payload, then the
\* summary is logged and fetch_and_process returns.
CycleScorers ==
    /\ InCycle /\ stage = "scorers"
    /\ sclock' = sclock
    /\ \/ CycleReturns("none", cycle.fault)
       \/ CycleRaises("AttributeError")
    /\ UNCHANGED <<mode, storeVars>>

\* KeyboardInterrupt arrives while a cycle runs.
InterruptCycle ==
    /\ InCycle
    /\ sclock' = sclock
    /\ CycleRaises("KeyboardInterrupt")
    /\ UNCHANGED <<mode, storeVars>>

\* Lines 111-113: run_pending finds the job not due; time.sleep(1).
LoopWait ==
    /\ spc = "waiting"
    /\ sclock < next_run
    /\ sclock + PollSleep <= MaxTime
    /\ sclock' = sclock + PollSleep
    /\ sched' = [sched EXCEPT !.waited = TRUE]
    /\ UNCHANGED <<mode, spc, stage, feed, conn_open, job_registered, next_run,
                   cycle, lastcycle, storeVars>>

\* Faulty variant: the job is handed to a thread and the loop goes on polling
\* while it runs.
run_pending_reached_while_job_runs == spc \in {"waiting", "job_cycle"}

\* Lines 111-113: the loop calls run_pending, which calls the job and
\* returns when the job has returned; the loop reaches run_pending again
\* only then.
run_pending_reached == spc = "waiting"

\* Line 112: run_pending finds the job due and runs it.
LoopRunJob ==
    /\ run_pending_reached
    /\ sclock >= next_run
    /\ BeginCycle("job_cycle")
    /\ UNCHANGED <<mode, sclock, conn_open, job_registered, next_run, lastcycle,
                   storeVars>>

\* Lines 114-121: KeyboardInterrupt while the loop waits.
InterruptWait ==
    /\ spc = "waiting"
    /\ Exit("interrupt", TRUE)
    /\ UNCHANGED <<mode, feed, job_registered, next_run, sclock, cycle,
                   lastcycle, storeVars>>

\* Lines 118-121: an exception of the loop itself (schedule, sleep).
LoopError ==
    /\ spc = "waiting"
    /\ Exit("loop_error", TRUE)
    /\ UNCHANGED <<mode, feed, job_registered, next_run, sclock, cycle,
                   lastcycle, storeVars>>

----------------------------------------------------------------------------
(* Two processes on one store                                             *)
(* The scheduler and the dashboard (app.py calls process_and_store_matches) *)
(* each open the same database file.  An upsert is two statements on the   *)
(* connection: the SELECT, which opens no write transaction, and the        *)
(* INSERT or UPDATE followed by commit.  The step of another process may    *)
(* fall between them.  Whether the tables reject a second row with the same *)
(* id is decided by sql/schema.sql: race.enforced takes both values.        *)

Writers == {1, 2}

\* Upserts one process makes in a run.
MaxUpserts == 2

\* The records the two processes upsert: one match id and one team id.
RaceInputs ==
    { [ent |-> "match", data |-> m] : m \in { u \in UpsertInputs : u.match_id = 1 } }
    \cup { [ent |-> "team", data |-> t] :
             t \in { u \in TeamInputs : u.team_id = 10 /\ u.founded = None } }

NoUpsert == [pc |-> "idle", ent |-> "none", data |-> << >>, existing |-> FALSE,
             exc |-> "none", n |-> 0]

RaceInit == race \in [enforced : BOOLEAN, w : {[i \in Writers |-> NoUpsert]}]

\* The SELECT of insert_match / insert_team: "if existing".
upsert_select(db, ent, data) ==
    IF ent = "match" THEN MatchExists(db, data.match_id)
    ELSE TeamExists(db, data.team_id)

\* The branch taken on what the SELECT returned, and the commit: UPDATE of
\* the rows with the id, or INSERT.  An INSERT of an id that has been stored
\* in the meantime raises IntegrityError where the key is enforced (logged
\* and re-raised, nothing committed) and adds a second row where it is not.
upsert_write(db, ent, data, existing, enforced) ==
    IF ent = "match"
    THEN IF existing
         THEN [db |-> [db EXCEPT !.matches =
                         [i \in 1..Len(@) |->
                            IF @[i].match_id = data.match_id
                            THEN UpdateMatchRow(@[i], data) ELSE @[i]]],
               exc |-> "none"]
         ELSE IF enforced /\ MatchExists(db, data.match_id)
         THEN [db |-> db, exc |-> "IntegrityError"]
         ELSE [db |-> [db EXCEPT !.matches =
                         Append(@, data @@ [updated_at |-> "insert"])],
               exc |-> "none"]
    ELSE IF existing
         THEN [db |-> [db EXCEPT !.teams =
                         [i \in 1..Len(@) |->
                            IF @[i].team_id = data.team_id
                            THEN data @@ [updated_at |-> "update"] ELSE @[i]]],
               exc |-> "none"]
         ELSE IF enforced /\ TeamExists(db, data.team_id)
         THEN [db |-> db, exc |-> "IntegrityError"]
         ELSE [db |-> [db EXCEPT !.teams =
                         Append(@, data @@ [updated_at |-> "insert"])],
               exc |-> "none"]

\* Process w enters insert_match or insert_team and runs its SELECT.
UpsertSelect(w) ==
    /\ race.w[w].pc = "idle"
    /\ race.w[w].n < MaxUpserts
    /\ \E in \in RaceInputs :
        race' = [race EXCEPT !.w[w] =
                    [pc |-> "selected", ent |-> in.ent, data |-> in.data,
                     existing |-> upsert_select(DB, in.ent, in.data),
                     exc |-> "none", n |-> @.n]]
    /\ UNCHANGED storeVars

\* Process w runs its INSERT or UPDATE and commits, or raises.
UpsertWrite(w) ==
    /\ race.w[w].pc = "selected"
    /\ \E r \in {upsert_write(DB, race.w[w].ent, race.w[w].data,
                              race.w[w].existing, race.enforced)} :
        /\ matches' = r.db.matches
        /\ teams' = r.db.teams
        /\ race' = [race EXCEPT !.w[w].pc = "idle", !.w[w].exc = r.exc,
                                !.w[w].n = @ + 1]
    /\ UNCHANGED <<player_stats, dbcall, firstRec, lastRec, ncalls, ningested,
                   kcount>>

-----------------------------------------------------------------------------
(* Transformer: calculate_form_scores                                      *)

\* Faulty variant: the SELECT without its WHERE clause.
form_score_rows_unfiltered(db) ==
    [i \in 1..Len(db.player_stats) |->
        [player_id   |-> db.player_stats[i].player_id,
         player_name |-> db.player_stats[i].player_name,
         team_id     |-> db.player_stats[i].team_id,
         efficiency  |-> db.player_stats[i].efficiency]]

\* Lines 221-231: "SELECT player_id, player_name, team_id, efficiency,
\* created_at FROM player_stats WHERE player_id IS NOT NULL".  created_at is
\* set by the schema and is no column of the model; the rows are kept in
\* table order.
form_score_rows(db) ==
    LET keep == SelectSeq(db.player_stats, LAMBDA row : row.player_id # None)
    IN  [i \in 1..Len(keep) |->
            [player_id   |-> keep[i].player_id,
             player_name |-> keep[i].player_name,
             team_id     |-> keep[i].team_id,
             efficiency  |-> keep[i].efficiency]]

\* calculate_form_scores: the query (fault: execute_query raises, which the
\* handler of line 248 logs), the return on an empty frame, else the rolling
\* mean as a column of the frame.  No statement writes to the database: the
\* frame is dropped when the method returns.
calculate_form_scores(db, fault) ==
    IF fault THEN [db |-> db, selected |-> << >>, exc |-> "none"]
    ELSE [db |-> db, selected |-> form_score_rows(db), exc |-> "none"]

NoFormCall == [called |-> FALSE, selected |-> << >>, changed |-> FALSE, seen |-> FALSE]

\* A call calculate_form_scores().
CalculateFormScores ==
    /\ \E fault \in BOOLEAN :
        \E r \in {calculate_form_scores(DB, fault)} :
            /\ matches' = r.db.matches
            /\ teams' = r.db.teams
            /\ player_stats' = r.db.player_stats
            /\ formcall' = [called |-> TRUE, selected |-> r.selected,
                            changed |-> r.db # DB,
                            seen |-> player_stats # << >>]
    /\ UNCHANGED <<dbcall, firstRec, lastRec, ncalls, ningested, kcount>>

\* The specifications of one process: no other process at work.
RaceIdle == race = [enforced |-> TRUE, w |-> [i \in Writers |-> NoUpsert]]

AuxInit == RaceIdle /\ formcall = NoFormCall

-----------------------------------------------------------------------------
(* Specifications                                                          *)

vars == <<matches, teams, player_stats, dbcall, firstRec, lastRec, ncalls,
          ningested, kcount, gencall, calccall,
          clock, last_request_time, cpc, cur, reqs, cret,
          mode, spc, stage, feed, conn_open, job_registered, next_run,
          sclock, cycle, lastcycle, sched,
          files, fwrites, fcall, nfetch, recent, race, formcall>>

\* The pure transformer functions on bounded inputs.
\* The scheduler of the specifications that do not run it.
SchedIdle == SchedInit /\ mode = "loop"

InitPure == StoreInit /\ PureInit /\ ClientInit /\ SchedIdle /\ FetchInit /\ AuxInit
NextPure ==
    \/ GeneratePlayerStats /\ UNCHANGED <<auxVars, storeVars, clientVars, schedVars, fetchVars>>
    \/ CalculateDerivedMetrics /\ UNCHANGED <<auxVars, storeVars, clientVars, schedVars, fetchVars>>
SpecPure == InitPure /\ [][NextPure]_vars

\* Direct upserts of match records.
InitUpsert == StoreInit /\ PureInit /\ ClientInit /\ SchedIdle /\ FetchInit /\ AuxInit
NextUpsert == InsertMatch /\ UNCHANGED <<auxVars, pureVars, clientVars, schedVars, fetchVars>>
SpecUpsert == InitUpsert /\ [][NextUpsert]_vars

\* Ingestion of provider payloads through the processor.
InitIngest == StoreInit /\ PureInit /\ ClientInit /\ SchedIdle /\ FetchInit /\ AuxInit
NextIngest == ProcessAndStoreMatches /\ UNCHANGED <<auxVars, pureVars, clientVars, schedVars, fetchVars>>
SpecIngest == InitIngest /\ [][NextIngest]_vars

\* One fetcher serving a sequence of _make_request calls.
InitClient == StoreInit /\ PureInit /\ ClientInit /\ SchedIdle /\ FetchInit /\ AuxInit
NextClient ==
    \/ MakeRequest /\ UNCHANGED <<auxVars, storeVars, pureVars, schedVars, fetchVars>>
    \/ Respond /\ UNCHANGED <<auxVars, storeVars, pureVars, schedVars, fetchVars>>
SpecClient == InitClient /\ [][NextClient]_vars

\* Direct calls of insert_team and insert_player_stats on one store.
InitDirect == StoreInit /\ PureInit /\ ClientInit /\ SchedIdle /\ FetchInit /\ AuxInit
NextDirect ==
    \/ InsertTeam /\ UNCHANGED <<auxVars, pureVars, clientVars, schedVars, fetchVars>>
    \/ InsertPlayerStats /\ UNCHANGED <<auxVars, pureVars, clientVars, schedVars, fetchVars>>
SpecDirect == InitDirect /\ [][NextDirect]_vars

\* Direct calls of the fetch_* methods of one fetcher.
InitFetch == StoreInit /\ PureInit /\ ClientInit /\ SchedIdle /\ FetchInit /\ AuxInit
NextFetch == FetchCall /\ UNCHANGED <<auxVars, storeVars, pureVars, schedVars>>
SpecFetch == InitFetch /\ [][NextFetch]_vars

\* One call of fetch_recent_data.
InitRecent == StoreInit /\ PureInit /\ ClientInit /\ SchedIdle /\ FetchInit /\ AuxInit
NextRecent ==
    \/ RecentStart /\ UNCHANGED <<auxVars, storeVars, pureVars, schedVars>>
    \/ RecentStep /\ UNCHANGED <<auxVars, storeVars, pureVars, schedVars>>
SpecRecent == InitRecent /\ [][NextRecent]_vars

\* Ingestions and form-score passes on one store.
InitForm == StoreInit /\ PureInit /\ ClientInit /\ SchedIdle /\ FetchInit /\ AuxInit
NextForm ==
    \/ ProcessAndStoreMatches /\ UNCHANGED <<auxVars, pureVars, clientVars, schedVars, fetchVars>>
    \/ CalculateFormScores /\ UNCHANGED <<race, pureVars, clientVars, schedVars, fetchVars>>
SpecForm == InitForm /\ [][NextForm]_vars

\* Two processes upserting the same ids on one store.
InitRace == StoreInit /\ PureInit /\ ClientInit /\ SchedIdle /\ FetchInit
            /\ RaceInit /\ formcall = NoFormCall
NextRace ==
    \/ \E w \in Writers :
          UpsertSelect(w) /\ UNCHANGED <<pureVars, clientVars, schedVars, fetchVars, formcall>>
    \/ \E w \in Writers :
          UpsertWrite(w) /\ UNCHANGED <<pureVars, clientVars, schedVars, fetchVars, formcall>>
SpecRace == InitRace /\ [][NextRace]_vars

\* The scheduler process, from main to its exit.
InitSched == StoreInit /\ PureInit /\ ClientInit /\ SchedInit /\ FetchInit /\ AuxInit
NextSched ==
    \/ Main /\ UNCHANGED <<auxVars, pureVars, clientVars, fetchVars>>
    \/ CycleFetch /\ UNCHANGED <<auxVars, pureVars, clientVars, fetchVars>>
    \/ CyclePersist /\ UNCHANGED <<auxVars, pureVars, clientVars, fetchVars>>
    \/ CycleScorers /\ UNCHANGED <<auxVars, pureVars, clientVars, fetchVars>>
    \/ InterruptCycle /\ UNCHANGED <<auxVars, pureVars, clientVars, fetchVars>>
    \/ LoopWait /\ UNCHANGED <<auxVars, pureVars, clientVars, fetchVars>>
    \/ LoopRunJob /\ UNCHANGED <<auxVars, pureVars, clientVars, fetchVars>>
    \/ InterruptWait /\ UNCHANGED <<auxVars, pureVars, clientVars, fetchVars>>
    \/ LoopError /\ UNCHANGED <<auxVars, pureVars, clientVars, fetchVars>>
SpecSched == InitSched /\ [][NextSched]_vars

----------------------------------------------------------------------------
(* Claims                                                                  *)

\* The rows of the matches table with a given id.
MatchRows(id) == { i \in 1..Len(matches) : matches[i].match_id = id }

\* A row of matches without its last-modified marker, as a match record.
RowData(row) == [f \in DOMAIN row \ {"updated_at"} |-> row[f]]

MutableColumns == {"status", "home_score", "away_score", "winner"}

\* C1 as stated: after any sequence of insert_match calls the table holds
\* exactly one row per match id ever ingested, and that row carries the field
\* values of the most recently ingested record for that id.
C1_LatestFieldValues ==
    \A id \in Ids :
        lastRec[id] # << >> =>
            /\ Cardinality(MatchRows(id)) = 1
            /\ \A i \in MatchRows(id) : RowData(matches[i]) = lastRec[id][1]

\* C1 amended: exactly one row per match id ever ingested (none for an id
\* never ingested); the row carries status, home_score, away_score and winner
\* of the most recently ingested record and every other column of the record
\* first ingested for that id.
C1_UpsertUniqueLatestMutable ==
    \A id \in Ids :
        /\ lastRec[id] = << >> => MatchRows(id) = {}
        /\ lastRec[id] # << >> =>
            /\ Cardinality(MatchRows(id)) = 1
            /\ \A i \in MatchRows(id) :
                 \A f \in DOMAIN lastRec[id][1] :
                    matches[i][f] = IF f \in MutableColumns
                                    THEN lastRec[id][1][f]
                                    ELSE firstRec[id][1][f]

\* C1 witness: an id was ingested again with another status and another
\* date, and its row was updated.
C1_Witness ==
    \E id \in Ids :
        /\ lastRec[id] # << >>
        /\ lastRec[id][1].status # firstRec[id][1].status
        /\ lastRec[id][1].utc_date # firstRec[id][1].utc_date
        /\ dbcall.op = "insert_match" /\ dbcall.exc = "none"
        /\ \E i \in MatchRows(id) : matches[i].updated_at = "update"

\* The rows of player_stats that reference a given match id.
StatRows(id) == { i \in 1..Len(player_stats) : player_stats[i].match_id = id }

IsPrefix(s, t) == Len(s) <= Len(t) /\ \A i \in 1..Len(s) : t[i] = s[i]

\* C2: stat rows are append-only.  Every call of process_and_store_matches
\* leaves the rows stored before it unchanged and in place, and after k
\* ingestions of the FINISHED match id (iterations the processor completed
\* and counted) the store holds one matches row and 2k stat rows for id.
C2_StatsAppendOnly ==
    /\ dbcall.op = "process_and_store_matches" =>
          IsPrefix(dbcall.pre.player_stats, player_stats)
    /\ \A id \in Ids :
          /\ Cardinality(StatRows(id)) = 2 * kcount[id]
          /\ kcount[id] >= 1 => Cardinality(MatchRows(id)) = 1

\* C2 witness: the same FINISHED match has been ingested three times, in
\* more than one call, and four stat rows of it were there before the last.
C2_Witness ==
    /\ kcount[1] = 3
    /\ Cardinality(StatRows(1)) = 6
    /\ dbcall.op = "process_and_store_matches"
    /\ Len(dbcall.pre.player_stats) = 4

\* C3: generate_player_stats_from_match returns exactly two rows, the home
\* side first and the away side second, each with player_id None, for a
\* FINISHED record, and no row for any other status.
C3_TwoAggregateRowsIffFinished ==
    gencall.called =>
        LET m == gencall.arg
            r == gencall.result
        IN  /\ m.status = "FINISHED" =>
                /\ Len(r) = 2
                /\ r[1].team_id = m.home_team_id /\ r[1].team_name = m.home_team_name
                /\ r[1].player_name = << m.home_team_name, " Squad" >>
                /\ r[2].team_id = m.away_team_id /\ r[2].team_name = m.away_team_name
                /\ r[2].player_name = << m.away_team_name, " Squad" >>
                /\ \A i \in 1..2 : r[i].player_id = None /\ r[i].match_id = m.match_id
            /\ m.status # "FINISHED" => r = << >>

\* C3 witnesses: a FINISHED record gave two rows whose sides differ; a record
\* of another status gave none.
C3_Witness ==
    /\ gencall.called
    /\ gencall.arg.status = "FINISHED"
    /\ Len(gencall.result) = 2
    /\ gencall.result[1].team_id # gencall.result[2].team_id

\* C4: calculate_derived_metrics never raises, and for minutes_played that is
\* 0, negative or missing the returned record has efficiency 0 and
\* involvement_rate 0.
C4_NoRaiseZeroMinutes ==
    calccall.called =>
        /\ ~calccall.raised
        /\ (calccall.arg.minutes_played # None
            /\ Get(calccall.arg.minutes_played, 0) <= 0) =>
              /\ calccall.result.efficiency = 0
              /\ calccall.result.involvement_rate = 0

\* C4 witness: a record with 0 minutes, goals and stale non-zero metrics was
\* given and came back with both metrics 0.
C4_Witness ==
    /\ calccall.called
    /\ calccall.arg.minutes_played = 0
    /\ calccall.arg.goals = 2
    /\ calccall.arg.efficiency # 0
    /\ calccall.result.efficiency = 0
    /\ calccall.result.involvement_rate = 0

\* C5: two consecutive requests of one fetcher, a retry after a 429 and a
\* request after a failed one included, are at least request_delay apart, and
\* N requests span at least (N-1) * request_delay.
C5_RequestSpacing ==
    /\ reqs.n >= 2 => reqs.last - reqs.prev >= request_delay
    /\ reqs.n >= 1 => reqs.last - reqs.first >= (reqs.n - 1) * request_delay

\* C5 witness: three requests, among them a retry after a 429 and a request
\* after a failed one, one of them delayed by the rate limit's sleep, and the
\* last exactly request_delay after the one before.
C5_Witness ==
    /\ reqs.n = 3
    /\ {"retry", "after_failure"} \subseteq reqs.kinds
    /\ reqs.padded
    /\ reqs.last - reqs.prev = request_delay

\* C6: a call answered with 429 and then, on the retry, with 200 returns the
\* body of the 200 response, issued the retry with the endpoint and parameters
\* of the call, and slept at least the cooldown before returning.
C6_RetryThenSuccess ==
    (cret.returned /\ cret.statuses = << 429, 200 >>) =>
        /\ cret.value \in {"payload1", "payload2"}
        /\ Len(cret.issued) = 2
        /\ \A i \in 1..2 : cret.issued[i] = [endpoint |-> cret.endpoint,
                                             params |-> cret.params]
        /\ cret.slept >= Cooldown

\* C6 witness: a matches call was answered 429 then 200 and returned.
C6_Witness ==
    /\ cret.returned
    /\ cret.statuses = << 429, 200 >>
    /\ cret.endpoint = "competitions/PL/matches"
    /\ cret.value = "payload2"
    /\ cpc = "idle"

\* ---- persistence: direct calls ----

\* C11: insert_player_stats called with the empty list returns 0, raises
\* nothing and leaves matches, teams and player_stats as they were, whatever
\* the state of the engine.
C11_EmptyStatsNoOp ==
    (dbcall.op = "insert_player_stats" /\ dbcall.args[1] = << >>) =>
        /\ dbcall.ret = 0
        /\ dbcall.exc = "none"
        /\ DB = dbcall.pre

\* C11 witness: the empty list was handed over while the engine would raise,
\* on a store that holds teams and stat rows.
C11_Witness ==
    /\ dbcall.op = "insert_player_stats"
    /\ dbcall.args = << << >>, TRUE >>
    /\ dbcall.ret = 0
    /\ teams # << >>
    /\ player_stats # << >>

\* The rows of teams with team id id.
TeamRows(ts, id) == { i \in 1..Len(ts) : ts[i].team_id = id }

\* C19: teams holds one row for every team id ever ingested; a call with an
\* id already stored rewrites that row in place (name, short name,
\* abbreviation, crest, founding year, venue, last-modified marker) and adds
\* no row; a call that raised changes nothing.
C19_TeamUpsertUnique ==
    /\ \A i, j \in 1..Len(teams) :
          (teams[i].team_id # None /\ teams[i].team_id = teams[j].team_id) => i = j
    /\ (dbcall.op = "insert_team" /\ dbcall.exc # "none") => DB = dbcall.pre
    /\ (dbcall.op = "insert_team" /\ dbcall.exc = "none"
          /\ dbcall.args[1].team_id # None) =>
          LET td  == dbcall.args[1]
              pre == dbcall.pre.teams
          IN  /\ Cardinality(TeamRows(teams, td.team_id)) = 1
              /\ \A i \in 1..Len(pre) : pre[i].team_id # td.team_id => teams[i] = pre[i]
              /\ IF TeamRows(pre, td.team_id) # {}
                 THEN /\ Len(teams) = Len(pre)
                      /\ \A i \in TeamRows(pre, td.team_id) :
                            teams[i] = td @@ [updated_at |-> "update"]
                 ELSE teams = Append(pre, td @@ [updated_at |-> "insert"])

\* C19 witness: a team stored as "Arsenal" without founding year was ingested
\* again with another name and a founding year, after another team.
C19_Witness ==
    /\ dbcall.op = "insert_team" /\ dbcall.exc = "none"
    /\ Len(dbcall.pre.teams) = 2
    /\ Len(teams) = 2
    /\ dbcall.pre.teams[1].team_id = 10
    /\ dbcall.pre.teams[1].team_name = "Arsenal"
    /\ dbcall.pre.teams[1].founded = None
    /\ teams[1].team_name = "Arsenal FC"
    /\ teams[1].founded = 1886
    /\ teams[1].updated_at = "update"
    /\ teams[2].team_id = 20

\* ---- ingestion ----

\* A raw match that is FINISHED and carries an id, both teams and a
\* full-time score.
FinishedWithScore(raw) ==
    /\ raw.status = "FINISHED"
    /\ raw.id \in Ids
    /\ raw.homeTeam.kind = "obj" /\ raw.awayTeam.kind = "obj"
    /\ raw.score.kind = "obj" /\ raw.score.fullTime.kind = "obj"
    /\ raw.score.fullTime.home \in Nat /\ raw.score.fullTime.away \in Nat

\* The last call ingested the single raw match into an empty store, with
\* the engine working.
IngestedOneIntoEmpty ==
    /\ dbcall.op = "process_and_store_matches"
    /\ dbcall.pre = EmptyDB
    /\ dbcall.args[1].kind = "matches"
    /\ Len(dbcall.args[1].matches) = 1
    /\ dbcall.args[2] = << "none" >>
    /\ FinishedWithScore(dbcall.args[1].matches[1])

\* C12: ingesting into an empty store one raw FINISHED match m, home team H
\* with full-time score h, away team A with full-time score a, leaves one
\* matches row (id m, home_score h, away_score a, FINISHED) and two
\* player_stats rows, both for m: ("H Squad", goals h), ("A Squad", goals a).
C12_FinishedMatchIngested ==
    IngestedOneIntoEmpty =>
        LET raw == dbcall.args[1].matches[1]
        IN  /\ dbcall.ret = 1
            /\ Len(matches) = 1
            /\ matches[1].match_id = raw.id
            /\ matches[1].home_score = raw.score.fullTime.home
            /\ matches[1].away_score = raw.score.fullTime.away
            /\ matches[1].status = "FINISHED"
            /\ Len(player_stats) = 2
            /\ \A i \in 1..2 : player_stats[i].match_id = raw.id
            /\ player_stats[1].player_name = << raw.homeTeam.name, " Squad" >>
            /\ player_stats[1].goals = raw.score.fullTime.home
            /\ player_stats[2].player_name = << raw.awayTeam.name, " Squad" >>
            /\ player_stats[2].goals = raw.score.fullTime.away

\* C12 witness: match 1, Arsenal 2 - Leeds 1.
C12_Witness ==
    /\ IngestedOneIntoEmpty
    /\ matches[1].match_id = 1
    /\ matches[1].home_score = 2 /\ matches[1].away_score = 1
    /\ player_stats[1].player_name = << "Arsenal", " Squad" >>
    /\ player_stats[1].goals = 2
    /\ player_stats[2].player_name = << "Leeds", " Squad" >>
    /\ player_stats[2].goals = 1

\* The index of the last insert_match entry of log before position j, 0 if
\* there is none.
LastUpsertBefore(log, j) ==
    LET S == { i \in 1..(j - 1) : log[i].op = "insert_match" }
    IN  IF S = {} THEN 0 ELSE CHOOSE i \in S : \A k \in S : k <= i

\* C20: in a call of process_and_store_matches every append of stat rows
\* for a match comes after the upsert of that match, and that upsert has
\* committed; the stat rows the call added all belong to matches whose upsert
\* committed in the call.
C20_StatsAfterCommittedUpsert ==
    dbcall.op = "process_and_store_matches" =>
        LET log == dbcall.log
            old == Len(dbcall.pre.player_stats)
        IN  /\ \A j \in 1..Len(log) :
                  log[j].op = "insert_player_stats" =>
                      LET u == LastUpsertBefore(log, j)
                      IN  /\ u > 0
                          /\ log[u].key = log[j].key
                          /\ log[u].exc = "none"
            /\ \A n \in (old + 1)..Len(player_stats) :
                  \E u \in 1..Len(log) :
                      /\ log[u].op = "insert_match"
                      /\ log[u].key = player_stats[n].match_id
                      /\ log[u].exc = "none"

\* C20 witness: in one call the upsert of match 1 failed and no stat row was
\* appended for it, and the upsert of match 2 committed before its stat rows
\* were appended.
C20_Witness ==
    /\ dbcall.op = "process_and_store_matches"
    /\ dbcall.pre = EmptyDB
    /\ Len(dbcall.log) = 5
    /\ dbcall.log[1] = Call("insert_match", 1, "SQLAlchemyError")
    /\ dbcall.log[2] = Call("insert_match", 2, "none")
    /\ dbcall.log[5] = Call("insert_player_stats", 2, "none")
    /\ Len(player_stats) = 2
    /\ \A n \in 1..2 : player_stats[n].match_id = 2

\* ---- client: failures ----

\* The call that returned ended with a response whose status is neither 200
\* nor 429, or with a network-level error.
EndedInFailure ==
    /\ cret.returned
    /\ cret.last \in RequestExceptions
       \/ cret.statuses[Len(cret.statuses)] \notin {0, 200, 429}

\* C13 (as claimed): for every status other than 200 and 429 and for every
\* network-level error, _make_request raises nothing and returns a failure
\* value that carries the endpoint, the status if any, and the message.
C13_FailureValueCarriesDetails ==
    EndedInFailure =>
        /\ cret.raised = "none"
        /\ cret.value # NoneS
        /\ cret.value.endpoint = cret.endpoint
        /\ cret.value.message = cret.last

\* C13 (amended): for every status other than 200 and 429 and for every
\* network-level error, _make_request raises nothing and returns None.
C13_FailureReturnsNone ==
    EndedInFailure =>
        /\ cret.raised = "none"
        /\ cret.value = NoneS

\* C13 witness: a call retried after a 429 ended in a timeout and returned.
C13_Witness ==
    /\ EndedInFailure
    /\ cret.statuses = << 429, 0 >>
    /\ cret.last = "Timeout"
    /\ cret.value = NoneS
    /\ cpc = "idle"

\* C14 (as claimed): a call never ends on a transient provider error: a 429
\* or a request timeout is followed by a retry of the request, and is not
\* returned to the caller as a failure.
C14_TransientErrorsRetried ==
    cret.returned =>
        /\ cret.last # "Timeout"
        /\ cret.statuses[Len(cret.statuses)] # 429

\* ---- fetch methods and snapshots ----

\* C15 (as claimed): a fetch whose request ended with a 200 response returns
\* the decoded body and archives it once, for every body, the empty object
\* and the empty list included.
C15_SuccessArchivedOnce ==
    (fcall.called /\ fcall.statuses[Len(fcall.statuses)] = 200) =>
        /\ fcall.archived = 1
        /\ fcall.raised = "none"
        /\ fcall.ret \in Bodies

\* C17: _save_snapshot raises nothing: when the write of the artifact fails
\* the fetch that asked for it still returns its payload.
C17_SnapshotFailureSwallowed ==
    (fcall.called /\ fcall.archived = 1) =>
        /\ fcall.raised = "none"
        /\ fcall.ret = "payload1"
        /\ fcall.wf = "open" => files = fcall.pre

\* C17 witness: json.dump failed after a 429 and a 200, and the payload was
\* returned.
C17_Witness ==
    /\ fcall.called
    /\ fcall.archived = 1
    /\ fcall.wf = "dump"
    /\ fcall.statuses = << 429, 200 >>
    /\ fcall.ret = "payload1"
    /\ [name |-> fcall.name, ts |-> Timestamp(fcall.at), data |-> "partial"] \in files

\* C18 (as claimed): two archival calls for the same logical name write two
\* distinct artifacts, whenever the two calls are made.
C18_SnapshotsNeverCollide ==
    \A i, j \in 1..Len(fwrites) :
        (i < j /\ fwrites[i].name = fwrites[j].name) =>
            fwrites[i].ts # fwrites[j].ts

\* The keys of a result category.
Keys(d) == { e[1] : e \in d }

CycleFailed(c) ==
    /\ c.ctx # "none"
    /\ c.raised # "KeyboardInterrupt"
    /\ (IsException(c.raised) \/ c.fault # "none")

\* C7: an exception raised inside a cycle (fetch, transform, persistence,
\* a match upsert that throws) never leaves fetch_and_process and never ends
\* the scheduler loop: after such a cycle the scheduler is waiting again with
\* the job due one interval after the cycle ended, and the next cycle starts
\* at that time.
C7_CycleExceptionContained ==
    CycleFailed(lastcycle) =>
        /\ ~lastcycle.escaped
        /\ sched.exit \notin {"job_exception", "exception_uncaught"}
        /\ lastcycle.ctx \in {"first_cycle", "job_cycle"} =>
            /\ job_registered
            /\ spc \in {"waiting", "job_cycle", "exited"}
            /\ spc = "exited" => sched.exit \in {"interrupt", "loop_error"}
            /\ spc = "waiting" =>
                /\ next_run = lastcycle.end + Interval
                /\ sclock <= next_run
            /\ spc = "job_cycle" => cycle.start = lastcycle.end + Interval

C7_Witness ==
    /\ spc = "job_cycle"
    /\ lastcycle.fault = "match"
    /\ lastcycle.raised = "AttributeError"
    /\ ~lastcycle.escaped
    /\ cycle.start = lastcycle.end + Interval

\* C8 (as claimed): on every exit path cleanup() has closed the connection
\* before the process exits.
C8_CleanupOnEveryExit == spc = "exited" => ~conn_open

\* C9: in run-once mode the scheduler runs exactly one cycle and returns; it
\* never waits and never registers the periodic job, whether or not the
\* cycle met an exception.
C9_RunOnceSingleCycle ==
    mode = "once" =>
        /\ ~job_registered
        /\ ~sched.waited
        /\ spc \notin {"waiting", "first_cycle", "job_cycle"}
        /\ sched.started <= 1
        /\ lastcycle.ctx \in {"none", "once_cycle"}
        /\ (lastcycle.ctx = "once_cycle" /\ ~lastcycle.escaped) =>
            /\ spc = "exited"
            /\ sched.exit = "once_done"
            /\ sched.started = 1
            /\ sched.completed = 1

C9_Witness ==
    /\ mode = "once"
    /\ sched.exit = "once_done"
    /\ lastcycle.raised = "ValueError"
    /\ sched.started = 1

\* C10: start() runs one cycle at once, before any wait and before the
\* periodic job is registered; only after that cycle has ended does the
\* scheduler alternate between waiting and running, each wait lasting
\* interval_minutes.
C10_ImmediateFirstCycle ==
    mode = "loop" =>
        /\ spc # "main" => sched.started >= 1
        /\ spc = "first_cycle" =>
            /\ sched.started = 1
            /\ cycle.start = 0
            /\ ~job_registered
            /\ ~sched.waited
        /\ (job_registered \/ sched.waited \/ spc \in {"waiting", "job_cycle"}) =>
            /\ sched.completed >= 1
            /\ job_registered
        /\ spc = "waiting" =>
            /\ next_run = sched.prev_end + Interval
            /\ sclock <= next_run
        /\ spc = "job_cycle" =>
            /\ sched.waited
            /\ sched.started = sched.completed + 1
            /\ cycle.start = sched.prev_end + Interval

C10_Witness ==
    /\ mode = "loop"
    /\ spc = "job_cycle"
    /\ sched.started = 3
    /\ sched.completed = 2
    /\ cycle.start = sched.prev_end + Interval

\* C21: at most one cycle runs at any time: a cycle starts only when every
\* cycle started before has run to its end, also after a cycle that lasted
\* longer than the interval.
C21_OneCycleAtATime ==
    /\ sched.started - sched.completed \in {0, 1}
    /\ spc = "waiting" => sched.started = sched.completed
    /\ InCycle =>
        /\ sched.started = sched.completed + 1
        /\ cycle.start >= sched.prev_end
        /\ lastcycle.ctx # "none" =>
            /\ ~lastcycle.escaped
            /\ cycle.start >= lastcycle.end

\* C21 witness: a periodic cycle lasted longer than the interval, and the
\* next one started one interval after it had ended.
C21_Witness ==
    /\ spc = "job_cycle"
    /\ lastcycle.ctx = "job_cycle"
    /\ lastcycle.end - lastcycle.start > Interval
    /\ cycle.start = lastcycle.end + Interval
    /\ sched.started = 3
    /\ sched.completed = 2

\* The sequence s without its k-th element.
Remove(s, k) == [i \in 1..(Len(s) - 1) |-> IF i < k THEN s[i] ELSE s[i + 1]]

\* The rows of a matches table that do not belong to match id, without their
\* last-modified markers, in table order.
OtherMatchRows(ms, id) ==
    LET keep == SelectSeq(ms, LAMBDA row : row.match_id # id)
    IN  [i \in 1..Len(keep) |-> RowData(keep[i])]

\* The match id of a raw match, None when it cannot be told.
RawMatchId(raw) ==
    IF process_match_data(raw).ok THEN process_match_data(raw).value.match_id
    ELSE None

C23_RetriesUncapped ==
    cret.returned =>
        /\ Len(cret.statuses) >= 1
        /\ cret.statuses[Len(cret.statuses)] # 429

\* ---- persistence: interleaved upserts ----

\* C24 (as claimed): upserts of the same id by two processes, interleaved in
\* any order, raise no error and leave one row for the id, in matches and
\* in teams.
C24_InterleavedUpsertsAtomic ==
    /\ \A w \in Writers : race.w[w].exc = "none"
    /\ \A i, j \in 1..Len(matches) : matches[i].match_id = matches[j].match_id => i = j
    /\ \A i, j \in 1..Len(teams) : teams[i].team_id = teams[j].team_id => i = j

\* ---- ingestion: the stat rows ----

\* The stat rows appended by the last process_and_store_matches call.
AppendedStats ==
    SubSeq(player_stats, Len(dbcall.pre.player_stats) + 1, Len(player_stats))

\* C25: every stat row written by an ingestion has form_score 0 when it is
\* created: the rows appended by a call, and so every row of the table.
C25_FormScoreZeroAtCreation ==
    /\ dbcall.op = "process_and_store_matches" =>
          \A i \in 1..Len(AppendedStats) : AppendedStats[i].form_score = 0
    /\ \A i \in 1..Len(player_stats) : player_stats[i].form_score = 0

\* C25 witness: a call appended the two rows of a 2-1 match, with a non-zero
\* efficiency and form_score 0.
C25_Witness ==
    /\ dbcall.op = "process_and_store_matches"
    /\ Len(AppendedStats) = 2
    /\ AppendedStats[1].goals = 2 /\ AppendedStats[1].efficiency = 222
    /\ AppendedStats[2].goals = 1 /\ AppendedStats[2].efficiency = 111
    /\ \A i \in 1..2 : AppendedStats[i].form_score = 0

\* C26: every stat row persisted by process_and_store_matches satisfies the
\* derivation rule: with minutes_played > 0, efficiency is
\* round((goals + assists) / minutes_played, 4) and involvement_rate is
\* round((shots + passes) / minutes_played, 4); otherwise both are 0.
C26_PersistedRowsDerived ==
    \A i \in 1..Len(player_stats) :
        LET row == player_stats[i]
        IN  /\ row.minutes_played # None
            /\ row.efficiency =
                  IF row.minutes_played > 0
                  THEN (IF 2 * (((row.goals + row.assists) * 10000) % row.minutes_played)
                              >= row.minutes_played
                        THEN (((row.goals + row.assists) * 10000) \div row.minutes_played) + 1
                        ELSE ((row.goals + row.assists) * 10000) \div row.minutes_played)
                  ELSE 0
            /\ row.involvement_rate =
                  IF row.minutes_played > 0
                  THEN (IF 2 * (((row.shots + row.passes) * 10000) % row.minutes_played)
                              >= row.minutes_played
                        THEN (((row.shots + row.passes) * 10000) \div row.minutes_played) + 1
                        ELSE ((row.shots + row.passes) * 10000) \div row.minutes_played)
                  ELSE 0

\* C26 witness: the rows of a 2-1 match are stored: 2 / 90 and 1 / 90 rounded
\* to four places, involvement 0.
C26_Witness ==
    /\ Len(player_stats) >= 2
    /\ player_stats[1].minutes_played = 90
    /\ player_stats[1].goals = 2 /\ player_stats[1].efficiency = 222
    /\ player_stats[2].goals = 1 /\ player_stats[2].efficiency = 111
    /\ player_stats[1].involvement_rate = 0

\* ---- persistence: update in place ----

\* C27: insert_match for an id already stored changes nothing but status,
\* home_score, away_score, winner and updated_at of the row with that id:
\* the other columns of the row, the other rows of matches, their number and
\* order, teams and player_stats are as before the call.
C27_UpdateTouchesFiveColumns ==
    (dbcall.op = "insert_match" /\ MatchExists(dbcall.pre, dbcall.args[1].match_id)) =>
        LET md  == dbcall.args[1]
            pre == dbcall.pre.matches
        IN  /\ Len(matches) = Len(pre)
            /\ \A i \in 1..Len(pre) :
                  IF pre[i].match_id = md.match_id
                  THEN \A f \in DOMAIN pre[i] :
                          f \notin {"status", "home_score", "away_score", "winner",
                                    "updated_at"}
                              => matches[i][f] = pre[i][f]
                  ELSE matches[i] = pre[i]
            /\ teams = dbcall.pre.teams
            /\ player_stats = dbcall.pre.player_stats

\* C27 witness: with matches 1 and 2 stored, match 1 is ingested again as
\* FINISHED with another date: its row has the new result and the old date,
\* and the row of match 2 is as it was.
C27_Witness ==
    /\ dbcall.op = "insert_match" /\ dbcall.exc = "none"
    /\ Len(dbcall.pre.matches) = 2 /\ Len(matches) = 2
    /\ dbcall.args[1].match_id = 1
    /\ dbcall.args[1].utc_date = "2024-08-24"
    /\ dbcall.args[1].status = "FINISHED"
    /\ \E i \in 1..2 :
          /\ matches[i].match_id = 1
          /\ dbcall.pre.matches[i].status = "SCHEDULED"
          /\ matches[i].status = "FINISHED" /\ matches[i].home_score = 2
          /\ matches[i].utc_date = "2024-08-17"
          /\ matches[i].updated_at = "update"
    /\ \E i \in 1..2 : matches[i].match_id = 2 /\ matches[i] = dbcall.pre.matches[i]

\* ---- ingestion: what a failing iteration leaves ----

\* The raw matches of the last process_and_store_matches call.
LastRaws ==
    IF dbcall.op = "process_and_store_matches" /\ dbcall.args[1].kind = "matches"
    THEN dbcall.args[1].matches ELSE << >>

\* C28 (as claimed): persistence of a match is all or nothing within a call:
\* every FINISHED match whose row was written during the call had its two
\* stat rows appended in the same call and was counted.
C28_MatchAllOrNothing ==
    dbcall.op = "process_and_store_matches" =>
        LET mc      == MatchCalls(LastRaws, dbcall.log)
            written == { i \in 1..Len(mc) :
                           mc[i].exc = "none" /\ mc[i].rec.status = "FINISHED" }
            counted == { k \in 1..Len(LastRaws) :
                           /\ dbcall.outcomes[k] = "counted"
                           /\ process_match_data(LastRaws[k]).value.status = "FINISHED" }
        IN  /\ Len(AppendedStats) = 2 * Cardinality(written)
            /\ Cardinality(counted) = Cardinality(written)

\* C29 (as claimed): process_and_store_matches never calls insert_match or
\* insert_team with a null identity.
C29_NoNullIdentityUpsert ==
    \A i \in 1..Len(dbcall.log) :
        dbcall.log[i].op \in {"insert_match", "insert_team"} =>
            dbcall.log[i].key # None

\* ---- form scores ----

====
